---- MODULE Spec2Model ----
(***************************************************************************)
(* Client-side prediction, reconciliation, remote interpolation and RTT    *)
(* tracking of the game client (client/src/App.tsx and                     *)
(* client/src/components/Player.tsx).                                      *)
(*                                                                         *)
(* Numbers.  The program computes with IEEE doubles; the model uses fixed  *)
(* point: lengths in millimetres (1 unit = 1000), velocities in mm/s,      *)
(* blend factors in 1/10000, times in milliseconds.  A product or quotient *)
(* is rounded to the nearest unit (RoundDiv).  distanceTo is the ceiling   *)
(* of the square root, so that every comparison "distance > c" the code    *)
(* makes has exactly the truth value it has over the reals.                *)
(***************************************************************************)
EXTENDS Integers, Sequences, FiniteSets, TLC

VARIABLES
  \* ---- Player.tsx, the component of the local player ----
  modelLoaded,        \* useState modelLoaded
  localPositionRef,   \* predicted position [x, y, z]
  localRotationRef,   \* predicted yaw (localRotationRef.current.y), in quarter turns
  verticalVelocity,   \* verticalVelocity.current
  prevJumpRef,        \* prevJumpRef.current
  currentInput,       \* currentInputRef.current (flags)
  playerData,         \* the playerData prop: latest authoritative snapshot position
  mountData,          \* the playerData prop of the render that started the model load
  predictedPosition,  \* useFrame local: result of calculateClientMovement in the last frame
  distError,          \* useFrame local: distance the last frame reconciled on
  reconTier,          \* branch the last frame took: "none" | "snap" | "aggressive" | "gentle"
  lerpFactor,         \* blend factor the last frame applied (1/10000)
  jumpImpulse,        \* TRUE iff the last frame executed verticalVelocity = JUMP_FORCE
  frameCounter,       \* number of local frames run
  freshSnapshot,      \* history: a snapshot arrived since the previous frame
  lastFrameFresh,     \* history: a snapshot had arrived between the last frame and the one before
  jumpRun,            \* history: the current run of consecutive frames that saw jump held
  restRun,            \* history: the current run of frames at rest on the authoritative position
  \* ---- App.tsx / Player.tsx, direction logic applied to one input ----
  dirInput, dirGrounded, dirApp, dirLocal, dirDone,
  \* ---- Player.tsx, the component of one remote player ----
  remoteData,             \* the playerData prop of the remote component (position)
  remotePositionBuffer,   \* remotePositionBuffer.current
  remoteTargetPosition,   \* remoteTargetPosition.current
  remoteNow,              \* performance.now() of the last remote frame
  remoteFrames,           \* number of remote frames run
  accepted,               \* history: every entry ever pushed, in order
  \* ---- App.tsx, input sampler and RTT tracker ----
  sequence,             \* currentInputRef.current.sequence
  inputTimestampsRef,   \* Map sequence -> send timestamp
  rttSamples,           \* window.rttSamples
  lastSentSequence,     \* lastSentInputState.current.sequence (0 = nothing sent)
  clock,                \* performance.now()
  lastAck,              \* history: outcome of the last acknowledgment
  \* ---- App.tsx, connection, entity table and game loop effect ----
  conn,                 \* module variable conn: TRUE iff it holds a connection
  connected,            \* useState connected
  identity,             \* useState identity ("none" = null)
  identityRef,          \* identityRef.current ("none" = null)
  players,              \* useState players: identity -> row
  localPlayer,          \* useState localPlayer (NoPlayer = null)
  interval,             \* the setInterval of the game loop effect and the state its closure holds
  sentCommands,         \* history: sequences handed to conn.reducers.updatePlayerInput, in order
  highestAck,           \* history: the highest lastInputSeq the RTT block has processed
  connects,             \* history: number of onConnect calls
  lastEvent,            \* history: the last connection or table handler that ran
  \* ---- Player.tsx, calculateClientMovement applied to one input ----
  moveYaw, moveVector, moveDone,
  \* ---- Player.tsx (GameScene) and App.tsx, the Player components of the entity table ----
  scene,                \* identity -> the refs and state of the mounted Player component
  sceneFrames,          \* number of frames GameScene has rendered
  playerRotationRef,    \* App: playerRotationRef.current.y, in quarter turns
  forwardVectorRef,     \* App: forwardVectorRef.current
  lastCommand,          \* the last command handed to conn.reducers.updatePlayerInput
  elapsed,              \* time since the game loop interval was set or fired, in timer steps
  pendingEffect,        \* App: localPlayer changed since the effects last ran (a new sendInput)
  dropped,              \* history: identity -> length of the last non-empty buffer an unmount discarded
  \* ---- App.tsx / Player.tsx, two executions side by side ----
  runs,                 \* [A, B]: the sampler, RTT tracker, table and components of each execution
  \* ---- App.tsx, sendInput: the RTT statistics ----
  reports,              \* history: the min / avg / max lines logged, with the samples they cover
  \* ---- Player.tsx, handleMouseMove ----
  lookYaw,              \* localRotationRef.current.y in degrees
  lookMoves,            \* number of mouse moves handled
  \* ---- App.tsx (projectile callbacks), ProjectileManager.tsx ----
  projectileCache,      \* conn.db.projectile: id -> row
  projectiles,          \* App: the projectiles state, id -> row
  projectileMeshes,     \* ProjectileManager: projectileMeshes.current, id -> mesh position
  sceneChildren,        \* the meshes added to the three.js scene, by projectile id
  projFrames,           \* number of frames the ProjectileManager has run
  removedMeshes,        \* history: ids of the meshes the ProjectileManager removed
  \* ---- Player.tsx, loadAnimations ----
  animAttempts,         \* animation -> "idle", "fetching", "loading" or "done"
  loadedCount,          \* loadedCount of loadAnimations
  newAnimations,        \* keys of newAnimations
  animations,           \* the animations state: the keys published by setAnimations
  completions,          \* history: how often the completion step ran
  pendingAtCompletion   \* history: attempts not finished when the completion step last ran

localVars == <<modelLoaded, localPositionRef, localRotationRef, verticalVelocity,
               prevJumpRef, currentInput, playerData, predictedPosition, distError,
               reconTier, lerpFactor, jumpImpulse, frameCounter, freshSnapshot,
               lastFrameFresh, jumpRun, restRun, mountData>>
dirVars == <<dirInput, dirGrounded, dirApp, dirLocal, dirDone>>
remoteVars == <<remoteData, remotePositionBuffer, remoteTargetPosition, remoteNow,
                remoteFrames, accepted>>
rttVars == <<sequence, inputTimestampsRef, rttSamples, lastSentSequence, clock, lastAck>>
sessionVars == <<conn, connected, identity, identityRef, players, localPlayer, interval,
                 sentCommands, highestAck, connects, lastEvent>>
moveVars == <<moveYaw, moveVector, moveDone>>
sceneVars == <<scene, sceneFrames, playerRotationRef, forwardVectorRef, lastCommand,
               elapsed, pendingEffect, dropped>>
twinVars == <<runs>>
lookVars == <<lookYaw, lookMoves>>
projVars == <<projectileCache, projectiles, projectileMeshes, sceneChildren, projFrames,
              removedMeshes>>
animVars == <<animAttempts, loadedCount, newAnimations, animations, completions,
              pendingAtCompletion>>
sideVars == <<reports, lookVars, projVars, animVars>>
vars == <<localVars, dirVars, remoteVars, rttVars, sessionVars, moveVars, sceneVars,
         twinVars, sideVars>>

-----------------------------------------------------------------------------
(* Fixed-point arithmetic *)

\* n / d rounded to the nearest integer, halves away from zero (d > 0)
RoundDiv(n, d) == IF n >= 0 THEN (2 * n + d) \div (2 * d)
                  ELSE -((2 * (-n) + d) \div (2 * d))

RECURSIVE SqrtSearch(_, _, _)
\* least r in lo..hi with r * r >= n
SqrtSearch(n, lo, hi) ==
  IF lo >= hi THEN lo
  ELSE LET mid == (lo + hi) \div 2
       IN IF mid * mid >= n THEN SqrtSearch(n, lo, mid)
          ELSE SqrtSearch(n, mid + 1, hi)

\* ceiling of the square root of n, 0 <= n <= 46340 * 46340
CeilSqrt(n) == SqrtSearch(n, 0, IF n < 46340 THEN n ELSE 46340)

Vec(x, y, z) == [x |-> x, y |-> y, z |-> z]
Origin == Vec(0, 0, 0)

\* THREE.Vector3.distanceToSquared
DistSq(a, b) == (a.x - b.x) * (a.x - b.x) + (a.y - b.y) * (a.y - b.y)
                + (a.z - b.z) * (a.z - b.z)

\* THREE.Vector3.distanceTo
distanceTo(a, b) == CeilSqrt(DistSq(a, b))

\* THREE.Vector3.lerp: this += (v - this) * alpha, alpha in 1/10000
lerp(a, v, alpha) ==
  Vec(a.x + RoundDiv((v.x - a.x) * alpha, 10000),
      a.y + RoundDiv((v.y - a.y) * alpha, 10000),
      a.z + RoundDiv((v.z - a.z) * alpha, 10000))

-----------------------------------------------------------------------------
(* Constants of Player.tsx *)

PLAYER_SPEED == 7500          \* mm/s
SPRINT_SPEED == 13500         \* PLAYER_SPEED * SPRINT_MULTIPLIER (1.8)
GRAVITY == -6000              \* mm/s^2
JUMP_FORCE == 9000            \* mm/s
TICKS_PER_SECOND == 60        \* FIXED_DELTA = 1 / 60
POSITION_RECONCILE_THRESHOLD == 200
SNAP_THRESHOLD == 1000
GENTLE_FACTOR == 500          \* 0.05
GROUND_EPSILON == 10          \* 0.01

-----------------------------------------------------------------------------
(* Bounds of the model *)

MaxFrames == 2          \* local frames per run (reconciliation runs)
MaxJumpFrames == 4      \* local frames per run (jump runs)
MaxTierFrames == 3      \* local frames per run (tier runs)
MaxRemoteFrames == 4    \* remote frames per run (interpolation runs)
MaxBufferFrames == 16   \* remote frames per run (long buffer runs)
MaxSequence == 4        \* sampler ticks per run (RTT runs)
MaxLossSequence == 103  \* sampler ticks per run (runs without acknowledgment)
MaxClock == 3           \* clock advances per run, in steps of ClockStep
MaxSessionSequence == 3 \* sampler ticks per run (session runs)
MaxConnects == 2        \* connections per run (session runs)
MaxAgeSequence == 103   \* sampler ticks per run (late acknowledgment runs)
FirstAgeAck == 101      \* the sends before the first acknowledgment (late acknowledgment runs)
MaxLandFrames == 105
MaxConvergeFrames == 5    \* local frames per run (runs through a landing)

-----------------------------------------------------------------------------
(* Local Predictor: calculateClientMovement *)

NoInput == [forward |-> FALSE, backward |-> FALSE, left |-> FALSE, right |-> FALSE,
            sprint |-> FALSE, jump |-> FALSE, attack |-> FALSE, castSpell |-> FALSE]

\* cos and sin (x 1000) of a yaw of q quarter turns
CosQ(q) == CASE q % 4 = 0 -> 1000 [] q % 4 = 1 -> 0 [] q % 4 = 2 -> -1000 [] OTHER -> 0
SinQ(q) == CASE q % 4 = 0 -> 0 [] q % 4 = 1 -> 1000 [] q % 4 = 2 -> 0 [] OTHER -> -1000

\* new THREE.Vector3(0, 0, -1).applyAxisAngle(Y, yaw)
ForwardVec(q) == Vec(-SinQ(q), 0, -CosQ(q))
\* new THREE.Vector3(1, 0, 0).applyAxisAngle(Y, yaw)
RightVec(q) == Vec(CosQ(q), 0, -SinQ(q))

\* worldMoveVector after the four "if (inputState.xxx)" lines and the normalisation
MoveDirection(q, in) ==
  LET f == ForwardVec(q)
      r == RightVec(q)
      sf == (IF in.forward THEN 1 ELSE 0) - (IF in.backward THEN 1 ELSE 0)
      sr == (IF in.right THEN 1 ELSE 0) - (IF in.left THEN 1 ELSE 0)
      raw == Vec(sf * f.x + sr * r.x, 0, sf * f.z + sr * r.z)
      lenSq == raw.x * raw.x + raw.z * raw.z
      len == CeilSqrt(lenSq)
  IN IF lenSq > 1100000
       THEN Vec(RoundDiv(raw.x * 1000, len), 0, RoundDiv(raw.z * 1000, len))
       ELSE raw

\* variant of calculateClientMovement: the impulse ignores prevJumpRef (no edge detection)
calculateClientMovement_NoEdge(currentPos, q, in, vv, prevJump) ==
  LET hasInput == in.forward \/ in.backward \/ in.left \/ in.right
  IN IF ~hasInput /\ ~in.jump /\ currentPos.y <= 0
       THEN [pos |-> currentPos, vv |-> vv, prevJump |-> prevJump, impulse |-> FALSE]
       ELSE
         LET speed == IF in.sprint THEN SPRINT_SPEED ELSE PLAYER_SPEED
             dir == MoveDirection(q, in)
             mx == RoundDiv(dir.x * speed, 1000 * TICKS_PER_SECOND)
             mz == RoundDiv(dir.z * speed, 1000 * TICKS_PER_SECOND)
             vv1 == vv + RoundDiv(GRAVITY, TICKS_PER_SECOND)
             impulse == in.jump /\ currentPos.y <= GROUND_EPSILON
             vv2 == IF impulse THEN JUMP_FORCE ELSE vv1
             ny == currentPos.y + RoundDiv(vv2, TICKS_PER_SECOND)
         IN IF ny < 0
              THEN [pos |-> Vec(currentPos.x + mx, 0, currentPos.z + mz), vv |-> 0,
                    prevJump |-> in.jump, impulse |-> impulse]
              ELSE [pos |-> Vec(currentPos.x + mx, ny, currentPos.z + mz), vv |-> vv2,
                    prevJump |-> in.jump, impulse |-> impulse]

\* variant of calculateClientMovement: the idle early return is missing
calculateClientMovement_NoIdleReturn(currentPos, q, in, vv, prevJump) ==
  LET speed == IF in.sprint THEN SPRINT_SPEED ELSE PLAYER_SPEED
      dir == MoveDirection(q, in)
      mx == RoundDiv(dir.x * speed, 1000 * TICKS_PER_SECOND)
      mz == RoundDiv(dir.z * speed, 1000 * TICKS_PER_SECOND)
      vv1 == vv + RoundDiv(GRAVITY, TICKS_PER_SECOND)
      impulse == in.jump /\ ~prevJump /\ currentPos.y <= GROUND_EPSILON
      vv2 == IF impulse THEN JUMP_FORCE ELSE vv1
      ny == currentPos.y + RoundDiv(vv2, TICKS_PER_SECOND)
  IN IF ny < 0
       THEN [pos |-> Vec(currentPos.x + mx, 0, currentPos.z + mz), vv |-> 0,
             prevJump |-> in.jump, impulse |-> impulse]
       ELSE [pos |-> Vec(currentPos.x + mx, ny, currentPos.z + mz), vv |-> vv2,
             prevJump |-> in.jump, impulse |-> impulse]

\* the state calculateClientMovement returns and leaves in the refs
calculateClientMovement(currentPos, q, in, vv, prevJump) ==
  LET hasInput == in.forward \/ in.backward \/ in.left \/ in.right
  IN IF ~hasInput /\ ~in.jump /\ currentPos.y <= 0
       THEN [pos |-> currentPos, vv |-> vv, prevJump |-> prevJump, impulse |-> FALSE]
       ELSE
         LET speed == IF in.sprint THEN SPRINT_SPEED ELSE PLAYER_SPEED
             dir == MoveDirection(q, in)
             mx == RoundDiv(dir.x * speed, 1000 * TICKS_PER_SECOND)
             mz == RoundDiv(dir.z * speed, 1000 * TICKS_PER_SECOND)
             vv1 == vv + RoundDiv(GRAVITY, TICKS_PER_SECOND)
             impulse == in.jump /\ ~prevJump /\ currentPos.y <= GROUND_EPSILON
             vv2 == IF impulse THEN JUMP_FORCE ELSE vv1
             ny == currentPos.y + RoundDiv(vv2, TICKS_PER_SECOND)
         IN IF ny < 0
              THEN [pos |-> Vec(currentPos.x + mx, 0, currentPos.z + mz), vv |-> 0,
                    prevJump |-> in.jump, impulse |-> impulse]
              ELSE [pos |-> Vec(currentPos.x + mx, ny, currentPos.z + mz), vv |-> vv2,
                    prevJump |-> in.jump, impulse |-> impulse]

-----------------------------------------------------------------------------
(* Reconciler: the three tiers of useFrame *)

\* variant of AggressiveFactor: the Math.min ceiling is missing
AggressiveFactor_NoCeiling(d) == 1500 + 3 * d

\* Math.min(0.3, 0.15 + distError * 0.3)
AggressiveFactor(d) == IF 1500 + 3 * d < 3000 THEN 1500 + 3 * d ELSE 3000

\* variant of Tier: the snap test is ">=" instead of ">"
Tier_SnapAtThreshold(d) ==
  IF d >= SNAP_THRESHOLD THEN "snap"
  ELSE IF d > POSITION_RECONCILE_THRESHOLD THEN "aggressive"
  ELSE "gentle"

\* the branch taken for distance d
Tier(d) == IF d > SNAP_THRESHOLD THEN "snap"
           ELSE IF d > POSITION_RECONCILE_THRESHOLD THEN "aggressive"
           ELSE "gentle"

\* variant of Reconcile: errors up to POSITION_RECONCILE_THRESHOLD are left uncorrected
Reconcile_SkipSmall(pos, serverPos) ==
  LET d == distanceTo(pos, serverPos)
  IN IF d > SNAP_THRESHOLD
       THEN [pos |-> serverPos, tier |-> "snap", factor |-> 10000, dist |-> d]
     ELSE IF d > POSITION_RECONCILE_THRESHOLD
       THEN [pos |-> lerp(pos, serverPos, AggressiveFactor(d)), tier |-> "aggressive",
             factor |-> AggressiveFactor(d), dist |-> d]
     ELSE [pos |-> pos, tier |-> "gentle", factor |-> GENTLE_FACTOR, dist |-> d]

\* position, tier and factor after reconciling pos against serverPos
Reconcile(pos, serverPos) ==
  LET d == distanceTo(pos, serverPos)
  IN IF Tier(d) = "snap"
       THEN [pos |-> serverPos, tier |-> "snap", factor |-> 10000, dist |-> d]
     ELSE IF Tier(d) = "aggressive"
       THEN [pos |-> lerp(pos, serverPos, AggressiveFactor(d)), tier |-> "aggressive",
             factor |-> AggressiveFactor(d), dist |-> d]
     ELSE [pos |-> lerp(pos, serverPos, GENTLE_FACTOR), tier |-> "gentle",
           factor |-> GENTLE_FACTOR, dist |-> d]

-----------------------------------------------------------------------------
(* The component of the local player *)

\* keyMap of App.tsx
Keys == {"forward", "backward", "left", "right", "sprint", "jump"}

\* authoritative positions the server sends for the local entity
SnapPositions == {Origin, Vec(200, 0, 0), Vec(999, 0, 0), Vec(1000, 0, 0),
                  Vec(1001, 0, 0), Vec(600, 0, 800)}

\* the keys pressed in the reconciliation runs and in the jump runs
LocalKeys == {"forward", "jump"}
JumpKeys == {"forward", "jump"}
\* the authoritative positions of the jump runs
JumpPositions == {Origin, Vec(1001, 0, 0)}

\* the authoritative positions of the idle runs: one in each tier, one above the ground
ConvergePositions == {Vec(0, 80, 0), Vec(60, 0, 80), Vec(200, 0, 0), Vec(1001, 0, 0)}

\* yaw (quarter turns) of the entity when its component is mounted
SpawnYaws == {1}
\* rotation.y (quarter turns) of the snapshots of the tier runs
SnapYaws == {1, 2}

NoJumpRun == [ticks |-> 0, impulses |-> 0, startOk |-> FALSE, first |-> FALSE,
              grounded |-> FALSE]

Idle(in) == ~in.forward /\ ~in.backward /\ ~in.left /\ ~in.right /\ ~in.sprint /\ ~in.jump

\* at rest on the authoritative position
AtRest == /\ modelLoaded
          /\ Idle(currentInput)
          /\ localPositionRef.y <= 0
          /\ localPositionRef = playerData.position

InitLocalVars ==
  /\ modelLoaded = FALSE
  /\ playerData \in [position : {Origin}, rotation : SpawnYaws]
  /\ mountData = playerData
  /\ localPositionRef = playerData.position
  /\ localRotationRef = 0
  /\ verticalVelocity = 0
  /\ prevJumpRef = FALSE
  /\ currentInput = NoInput
  /\ predictedPosition = playerData.position
  /\ distError = 0
  /\ reconTier = "none"
  /\ lerpFactor = 0
  /\ jumpImpulse = FALSE
  /\ frameCounter = 0
  /\ freshSnapshot = FALSE
  /\ lastFrameFresh = FALSE
  /\ jumpRun = NoJumpRun
  /\ restRun = 0

\* FBXLoader onLoad callback: setModelLoaded(true) and initialisation of the local refs
ModelLoad ==
  /\ ~modelLoaded
  /\ modelLoaded' = TRUE
  /\ localPositionRef' = mountData.position
  /\ localRotationRef' = mountData.rotation
  /\ UNCHANGED mountData
  /\ UNCHANGED <<verticalVelocity, prevJumpRef, currentInput, playerData,
                 predictedPosition, distError, reconTier, lerpFactor, jumpImpulse,
                 frameCounter, freshSnapshot, lastFrameFresh, jumpRun, restRun>>
  /\ UNCHANGED <<dirVars, remoteVars, rttVars, sessionVars, moveVars, sceneVars,
                 twinVars, sideVars>>

\* handleKeyDown of App.tsx
KeyDown(k) ==
  /\ ~currentInput[k]
  /\ currentInput' = [currentInput EXCEPT ![k] = TRUE]
  /\ UNCHANGED mountData
  /\ UNCHANGED <<modelLoaded, localPositionRef, localRotationRef, verticalVelocity,
                 prevJumpRef, playerData, predictedPosition, distError, reconTier,
                 lerpFactor, jumpImpulse, frameCounter, freshSnapshot, lastFrameFresh,
                 jumpRun, restRun>>
  /\ UNCHANGED <<dirVars, remoteVars, rttVars, sessionVars, moveVars, sceneVars,
                 twinVars, sideVars>>

\* handleKeyUp of App.tsx
KeyUp(k) ==
  /\ currentInput[k]
  /\ currentInput' = [currentInput EXCEPT ![k] = FALSE]
  /\ UNCHANGED mountData
  /\ UNCHANGED <<modelLoaded, localPositionRef, localRotationRef, verticalVelocity,
                 prevJumpRef, playerData, predictedPosition, distError, reconTier,
                 lerpFactor, jumpImpulse, frameCounter, freshSnapshot, lastFrameFresh,
                 jumpRun, restRun>>
  /\ UNCHANGED <<dirVars, remoteVars, rttVars, sessionVars, moveVars, sceneVars,
                 twinVars, sideVars>>

\* conn.db.player.onUpdate for the local entity, seen by the component as a new
\* playerData prop with position p and rotation.y r
SnapshotUpdate(p, r) ==
  /\ playerData' = [position |-> p, rotation |-> r]
  /\ freshSnapshot' = TRUE
  /\ UNCHANGED mountData
  /\ UNCHANGED <<modelLoaded, localPositionRef, localRotationRef, verticalVelocity,
                 prevJumpRef, currentInput, predictedPosition, distError, reconTier,
                 lerpFactor, jumpImpulse, frameCounter, lastFrameFresh, jumpRun, restRun>>
  /\ UNCHANGED <<dirVars, remoteVars, rttVars, sessionVars, moveVars, sceneVars,
                 twinVars, sideVars>>

\* a snapshot of the local entity that changes the position only
SnapshotArrives(p) == SnapshotUpdate(p, playerData.rotation)

\* variant of LocalFrame: a snap also resets the vertical velocity
LocalFrame_SnapResetsVelocity ==
  /\ modelLoaded
  /\ LET m == calculateClientMovement(localPositionRef, localRotationRef, currentInput,
                                      verticalVelocity, prevJumpRef)
         r == Reconcile(m.pos, playerData.position)
     IN /\ predictedPosition' = m.pos
        /\ verticalVelocity' = IF r.tier = "snap" THEN 0 ELSE m.vv
        /\ prevJumpRef' = m.prevJump
        /\ jumpImpulse' = m.impulse
        /\ localPositionRef' = r.pos
        /\ distError' = r.dist
        /\ reconTier' = r.tier
        /\ lerpFactor' = r.factor
        /\ jumpRun' = IF ~currentInput.jump THEN NoJumpRun
                      ELSE IF jumpRun.ticks = 0
                        THEN [ticks |-> 1, impulses |-> IF m.impulse THEN 1 ELSE 0,
                              startOk |-> ~prevJumpRef /\ localPositionRef.y <= GROUND_EPSILON,
                              first |-> m.impulse,
                              grounded |-> localPositionRef.y <= GROUND_EPSILON]
                      ELSE [jumpRun EXCEPT !.ticks = @ + 1,
                                           !.impulses = IF m.impulse THEN @ + 1 ELSE @]
  /\ restRun' = IF AtRest THEN restRun + 1 ELSE 0
  /\ frameCounter' = frameCounter + 1
  /\ freshSnapshot' = FALSE
  /\ lastFrameFresh' = freshSnapshot
  /\ UNCHANGED <<modelLoaded, localRotationRef, currentInput, playerData, mountData>>
  /\ UNCHANGED <<dirVars, remoteVars, rttVars, sessionVars, moveVars, sceneVars,
                 twinVars, sideVars>>

\* variant of LocalFrame: reconciliation runs before the prediction
LocalFrame_ReconcileFirst ==
  /\ modelLoaded
  /\ LET r == Reconcile(localPositionRef, playerData.position)
         m == calculateClientMovement(r.pos, localRotationRef, currentInput,
                                      verticalVelocity, prevJumpRef)
     IN /\ predictedPosition' = m.pos
        /\ verticalVelocity' = m.vv
        /\ prevJumpRef' = m.prevJump
        /\ jumpImpulse' = m.impulse
        /\ localPositionRef' = m.pos
        /\ distError' = r.dist
        /\ reconTier' = r.tier
        /\ lerpFactor' = r.factor
        /\ jumpRun' = IF ~currentInput.jump THEN NoJumpRun
                      ELSE IF jumpRun.ticks = 0
                        THEN [ticks |-> 1, impulses |-> IF m.impulse THEN 1 ELSE 0,
                              startOk |-> ~prevJumpRef /\ localPositionRef.y <= GROUND_EPSILON,
                              first |-> m.impulse,
                              grounded |-> localPositionRef.y <= GROUND_EPSILON]
                      ELSE [jumpRun EXCEPT !.ticks = @ + 1,
                                           !.impulses = IF m.impulse THEN @ + 1 ELSE @]
  /\ restRun' = IF AtRest THEN restRun + 1 ELSE 0
  /\ frameCounter' = frameCounter + 1
  /\ freshSnapshot' = FALSE
  /\ lastFrameFresh' = freshSnapshot
  /\ UNCHANGED <<modelLoaded, localRotationRef, currentInput, playerData, mountData>>
  /\ UNCHANGED <<dirVars, remoteVars, rttVars, sessionVars, moveVars, sceneVars,
                 twinVars, sideVars>>

\* useFrame, branch "isLocalPlayer && currentInput": prediction, then reconciliation
LocalFrame ==
  /\ modelLoaded
  /\ LET m == calculateClientMovement(localPositionRef, localRotationRef, currentInput,
                                      verticalVelocity, prevJumpRef)
         r == Reconcile(m.pos, playerData.position)
     IN /\ predictedPosition' = m.pos
        /\ verticalVelocity' = m.vv
        /\ prevJumpRef' = m.prevJump
        /\ jumpImpulse' = m.impulse
        /\ localPositionRef' = r.pos
        /\ distError' = r.dist
        /\ reconTier' = r.tier
        /\ lerpFactor' = r.factor
        /\ jumpRun' = IF ~currentInput.jump THEN NoJumpRun
                      ELSE IF jumpRun.ticks = 0
                        THEN [ticks |-> 1, impulses |-> IF m.impulse THEN 1 ELSE 0,
                              startOk |-> ~prevJumpRef /\ localPositionRef.y <= GROUND_EPSILON,
                              first |-> m.impulse,
                              grounded |-> localPositionRef.y <= GROUND_EPSILON]
                      ELSE [jumpRun EXCEPT !.ticks = @ + 1,
                                           !.impulses = IF m.impulse THEN @ + 1 ELSE @]
  /\ restRun' = IF AtRest THEN restRun + 1 ELSE 0
  /\ frameCounter' = frameCounter + 1
  /\ freshSnapshot' = FALSE
  /\ lastFrameFresh' = freshSnapshot
  /\ UNCHANGED <<modelLoaded, localRotationRef, currentInput, playerData, mountData>>
  /\ UNCHANGED <<dirVars, remoteVars, rttVars, sessionVars, moveVars, sceneVars,
                 twinVars, sideVars>>

-----------------------------------------------------------------------------
(* Direction logic: determineAnimation (App.tsx), determineLocalAnimation (Player.tsx) *)

\* the if / else-if chain of determineAnimation
Direction(in) ==
  IF in.forward /\ ~in.backward THEN "forward"
  ELSE IF in.backward /\ ~in.forward THEN "back"
  ELSE IF in.left /\ ~in.right THEN "left"
  ELSE IF in.right /\ ~in.left THEN "right"
  ELSE IF in.forward /\ in.left THEN "left"
  ELSE IF in.forward /\ in.right THEN "right"
  ELSE IF in.backward /\ in.left THEN "left"
  ELSE IF in.backward /\ in.right THEN "right"
  ELSE "forward"

determineAnimation(in) ==
  IF in.attack THEN "attack1"
  ELSE IF in.castSpell THEN "cast"
  ELSE IF in.jump THEN "jump"
  ELSE IF ~(in.forward \/ in.backward \/ in.left \/ in.right) THEN "idle"
  ELSE (IF in.sprint THEN "run" ELSE "walk") \o "-" \o Direction(in)

\* the if / else-if chain of determineLocalAnimation
LocalDirection(in) ==
  IF in.forward /\ ~in.backward THEN "forward"
  ELSE IF in.backward /\ ~in.forward THEN "back"
  ELSE IF in.left /\ ~in.right THEN "left"
  ELSE IF in.right /\ ~in.left THEN "right"
  ELSE IF in.forward /\ in.left THEN "left"
  ELSE IF in.forward /\ in.right THEN "right"
  ELSE IF in.backward /\ in.left THEN "left"
  ELSE IF in.backward /\ in.right THEN "right"
  ELSE "forward"

determineLocalAnimation(in, isGrounded) ==
  IF in.attack THEN "attack1"
  ELSE IF in.castSpell THEN "cast"
  ELSE IF ~isGrounded THEN "jump"
  ELSE IF in.jump THEN "jump"
  ELSE IF ~(in.forward \/ in.backward \/ in.left \/ in.right) THEN "idle"
  ELSE (IF in.sprint THEN "run" ELSE "walk") \o "-" \o LocalDirection(in)

InputStates == [forward : BOOLEAN, backward : BOOLEAN, left : BOOLEAN, right : BOOLEAN,
                sprint : BOOLEAN, jump : BOOLEAN, attack : BOOLEAN, castSpell : BOOLEAN]

InitDirVars ==
  /\ dirInput \in InputStates
  /\ dirGrounded \in BOOLEAN
  /\ dirApp = ""
  /\ dirLocal = ""
  /\ dirDone = FALSE

DirVarsUnused ==
  /\ dirInput = NoInput
  /\ dirGrounded = TRUE
  /\ dirApp = ""
  /\ dirLocal = ""
  /\ dirDone = FALSE

\* one evaluation of both functions on the same input
DetermineAnimations ==
  /\ ~dirDone
  /\ dirApp' = determineAnimation(dirInput)
  /\ dirLocal' = determineLocalAnimation(dirInput, dirGrounded)
  /\ dirDone' = TRUE
  /\ UNCHANGED <<dirInput, dirGrounded>>
  /\ UNCHANGED <<localVars, remoteVars, rttVars, sessionVars, moveVars, sceneVars,
                 twinVars, sideVars>>

-----------------------------------------------------------------------------
(* The component of one remote player: snapshot buffer and interpolation *)

BUFFER_CAPACITY == 10    \* remotePositionBuffer.current.length > 10
RENDER_DELAY == 100      \* renderTime = now - 100
PUSH_EPSILON == 1        \* distanceTo(...) > 0.001

\* positions the server sends for the remote entity
RemotePositions == {Origin, Vec(10000, 0, 0), Vec(10001, 0, 0), Vec(0, 0, 4000)}
\* the two positions of the long buffer runs
BufferPositions == {Origin, Vec(10000, 0, 0)}
\* performance.now() when the component starts to run frames
MountTimes == {950}
\* time between two frames (ms)
FrameDeltas == {50, 100}
BufferDeltas == {50}

\* variant of PushSnapshot: the oldest entry is dropped at ">= 10" instead of "> 10"
PushSnapshot_ShiftAtCapacity(buffer, serverPosition, now) ==
  IF Len(buffer) = 0 \/ distanceTo(serverPosition, buffer[Len(buffer)].pos) > PUSH_EPSILON
    THEN LET pushed == Append(buffer, [pos |-> serverPosition, timestamp |-> now])
         IN IF Len(pushed) >= BUFFER_CAPACITY THEN Tail(pushed) ELSE pushed
    ELSE buffer

\* variant of PushSnapshot: every frame appends the snapshot it sees
PushSnapshot_Always(buffer, serverPosition, now) ==
  LET pushed == Append(buffer, [pos |-> serverPosition, timestamp |-> now])
  IN IF Len(pushed) > BUFFER_CAPACITY THEN Tail(pushed) ELSE pushed

\* the push / shift block of useFrame
PushSnapshot(buffer, serverPosition, now) ==
  IF Len(buffer) = 0 \/ distanceTo(serverPosition, buffer[Len(buffer)].pos) > PUSH_EPSILON
    THEN LET pushed == Append(buffer, [pos |-> serverPosition, timestamp |-> now])
         IN IF Len(pushed) > BUFFER_CAPACITY THEN Tail(pushed) ELSE pushed
    ELSE buffer

\* TRUE iff the push / shift block appends an entry
Accepts(buffer, serverPosition) ==
  Len(buffer) = 0 \/ distanceTo(serverPosition, buffer[Len(buffer)].pos) > PUSH_EPSILON

RECURSIVE Scan(_, _, _)
\* the while loop: i advances while buffer[i + 1].timestamp <= renderTime (1-based here)
Scan(buffer, renderTime, i) ==
  IF i < Len(buffer) /\ buffer[i + 1].timestamp <= renderTime
    THEN Scan(buffer, renderTime, i + 1)
    ELSE i

\* variant of ClampedT: t is measured from the newer snapshot
ClampedT_FromNewer(renderTime, t0, t1) ==
  IF t1 = t0 THEN 0
  ELSE IF t1 - renderTime < 0 THEN 0
  ELSE IF t1 - renderTime > t1 - t0 THEN t1 - t0
  ELSE t1 - renderTime

\* Math.min(1, Math.max(0, t)) with t = (renderTime - t0) / (t1 - t0): the numerator
\* of the clamped t over the denominator t1 - t0
ClampedT(renderTime, t0, t1) ==
  IF t1 = t0 THEN 0
  ELSE IF renderTime - t0 < 0 THEN 0
  ELSE IF renderTime - t0 > t1 - t0 THEN t1 - t0
  ELSE renderTime - t0

\* THREE.Vector3.lerpVectors(v1, v2, num / den)
lerpVectors(v1, v2, num, den) ==
  IF den = 0 THEN v1
  ELSE Vec(v1.x + RoundDiv((v2.x - v1.x) * num, den),
           v1.y + RoundDiv((v2.y - v1.y) * num, den),
           v1.z + RoundDiv((v2.z - v1.z) * num, den))

\* variant of InterpolationTarget: t is not clamped to [0, 1]
InterpolationTarget_Unclamped(buffer, serverPosition, renderTime) ==
  IF Len(buffer) >= 2
    THEN LET i == Scan(buffer, renderTime, 1)
         IN IF i < Len(buffer)
              THEN lerpVectors(buffer[i].pos, buffer[i + 1].pos,
                               renderTime - buffer[i].timestamp,
                               buffer[i + 1].timestamp - buffer[i].timestamp)
              ELSE buffer[Len(buffer)].pos
  ELSE IF Len(buffer) = 1 THEN buffer[1].pos
  ELSE serverPosition

\* remoteTargetPosition after the interpolation block
InterpolationTarget(buffer, serverPosition, renderTime) ==
  IF Len(buffer) >= 2
    THEN LET i == Scan(buffer, renderTime, 1)
         IN IF i < Len(buffer)
              THEN lerpVectors(buffer[i].pos, buffer[i + 1].pos,
                               ClampedT(renderTime, buffer[i].timestamp,
                                        buffer[i + 1].timestamp),
                               buffer[i + 1].timestamp - buffer[i].timestamp)
              ELSE buffer[Len(buffer)].pos
  ELSE IF Len(buffer) = 1 THEN buffer[1].pos
  ELSE serverPosition

InitRemoteVars ==
  /\ remoteData \in [position : {Origin}]
  /\ remotePositionBuffer = <<>>
  /\ remoteTargetPosition = Origin
  /\ remoteNow \in MountTimes
  /\ remoteFrames = 0
  /\ accepted = <<>>

RemoteVarsUnused ==
  /\ remoteData = [position |-> Origin]
  /\ remotePositionBuffer = <<>>
  /\ remoteTargetPosition = Origin
  /\ remoteNow = 0
  /\ remoteFrames = 0
  /\ accepted = <<>>

\* conn.db.player.onUpdate for the remote entity, seen as a new playerData prop
RemoteSnapshot(p) ==
  /\ p # remoteData.position
  /\ remoteData' = [remoteData EXCEPT !.position = p]
  /\ UNCHANGED <<remotePositionBuffer, remoteTargetPosition, remoteNow, remoteFrames,
                 accepted>>
  /\ UNCHANGED <<localVars, dirVars, rttVars, sessionVars, moveVars, sceneVars,
                 twinVars, sideVars>>

\* useFrame, remote branch, run dt ms after the previous frame
RemoteFrame(dt) ==
  LET now == remoteNow + dt
      buffer == PushSnapshot(remotePositionBuffer, remoteData.position, now)
  IN /\ remotePositionBuffer' = buffer
     /\ accepted' = IF Accepts(remotePositionBuffer, remoteData.position)
                      THEN Append(accepted, [pos |-> remoteData.position, timestamp |-> now])
                      ELSE accepted
     /\ remoteTargetPosition' =
          InterpolationTarget(buffer, remoteData.position, now - RENDER_DELAY)
     /\ remoteNow' = now
     /\ remoteFrames' = remoteFrames + 1
     /\ UNCHANGED remoteData
     /\ UNCHANGED <<localVars, dirVars, rttVars, sessionVars, moveVars, sceneVars,
                    twinVars, sideVars>>

-----------------------------------------------------------------------------
(* App.tsx: connection state and entity table *)

NoIdentity == "none"     \* identity === null
LocalId == "id1"         \* the identity onConnect reports
Ids == {"id1", "id2"}    \* identities of the rows of the player table

\* a row of the player table (PlayerData)
Row(id, p, seq) == [identity |-> id, position |-> p, rotation |-> 0, lastInputSeq |-> seq]
\* localPlayer === null
NoPlayer == Row("none", Origin, 0)
\* new Map()
NoPlayers == [id \in {} |-> NoPlayer]
\* no interval is set
NoInterval == [running |-> FALSE, connected |-> FALSE, identity |-> "none"]
NoEvent == [name |-> "none", row |-> NoPlayer, size |-> 0, seq |-> 0]

\* App mounted, the connection not yet established
InitSessionVars ==
  /\ conn = FALSE
  /\ connected = FALSE
  /\ identity = NoIdentity
  /\ identityRef = NoIdentity
  /\ players = NoPlayers
  /\ localPlayer = NoPlayer
  /\ interval = NoInterval
  /\ sentCommands = <<>>
  /\ highestAck = 0
  /\ connects = 0
  /\ lastEvent = NoEvent

\* a session in progress: connected, effects run, the local row inserted
SessionEstablished ==
  /\ conn = TRUE
  /\ connected = TRUE
  /\ identity = LocalId
  /\ identityRef = LocalId
  /\ players = [id \in {LocalId} |-> Row(LocalId, Origin, 0)]
  /\ localPlayer = Row(LocalId, Origin, 0)
  /\ interval = [running |-> TRUE, connected |-> TRUE, identity |-> LocalId]
  /\ sentCommands = <<>>
  /\ highestAck = 0
  /\ connects = 1
  /\ lastEvent = NoEvent

-----------------------------------------------------------------------------
(* Player.tsx, GameScene: one Player component per row of the entity table *)

\* no component is mounted
NoScene == [id \in {} |-> NoPlayer]
\* nothing was sent yet
NoCommand == [sequence |-> 0, yaw |-> 0, forwardVector |-> Vec(0, 0, -1000)]

\* the refs and state of a Player component at mount, row being its playerData
Mount(row, isLocal) ==
  [isLocalPlayer |-> isLocal,
   modelLoaded |-> FALSE,
   mountData |-> [position |-> row.position, rotation |-> row.rotation],
   localPositionRef |-> row.position,
   localRotationRef |-> 0,
   verticalVelocity |-> 0,
   prevJumpRef |-> FALSE,
   remotePositionBuffer |-> <<>>,
   remoteTargetPosition |-> Origin,
   ran |-> {}]

\* the components after GameScene renders the table rows for the local identity
\* localIdentity: a component per key, kept while its key stays, mounted anew otherwise
Render(sc, rows, isConnected, localIdentity) ==
  [id \in (IF isConnected THEN DOMAIN rows ELSE {}) |->
     LET isLocal == localIdentity # NoIdentity /\ localIdentity = rows[id].identity
     IN IF id \in DOMAIN sc
          THEN [sc[id] EXCEPT !.isLocalPlayer = isLocal]
          ELSE Mount(rows[id], isLocal)]

\* history: the lengths of the non-empty buffers a render discards with their components
Dropped(sc, rendered, d) ==
  LET gone == {id \in DOMAIN sc \ DOMAIN rendered : Len(sc[id].remotePositionBuffer) > 0}
  IN [id \in DOMAIN d \cup gone |->
        IF id \in gone THEN Len(sc[id].remotePositionBuffer) ELSE d[id]]

\* the render that follows a change of connected, identity, players or localPlayer;
\* a new localPlayer makes a new sendInput (useCallback), a dependency of the game
\* loop effect
SceneRendered ==
  /\ scene' = Render(scene, players', connected', identity')
  /\ dropped' = Dropped(scene, Render(scene, players', connected', identity'), dropped)
  /\ pendingEffect' = (pendingEffect \/ localPlayer' # localPlayer)
  /\ UNCHANGED <<sceneFrames, playerRotationRef, forwardVectorRef, lastCommand, elapsed>>

\* one execution of the client before its connection: nothing sent, nothing mounted
NoRun ==
  [sequence |-> 0, lastSentSequence |-> 0, inputTimestampsRef |-> <<>>,
   rttSamples |-> <<>>, sent |-> <<>>, players |-> <<>>, scene |-> <<>>, now |-> 0,
   frames |-> 0, frameCounter |-> 0, lastLogTime |-> 0]

NoProjectiles == <<>>

\* the RTT log, the look handler, the projectile manager and the animation loader
\* before anything happened
InitSideVars ==
  /\ reports = <<>>
  /\ lookYaw = 0
  /\ lookMoves = 0
  /\ projectileCache = NoProjectiles
  /\ projectiles = NoProjectiles
  /\ projectileMeshes = <<>>
  /\ sceneChildren = {}
  /\ projFrames = 0
  /\ removedMeshes = {}
  /\ animAttempts = <<>>
  /\ loadedCount = 0
  /\ newAnimations = {}
  /\ animations = {}
  /\ completions = 0
  /\ pendingAtCompletion = 0

InitSceneVars ==
  /\ InitSideVars
  /\ scene = Render(NoScene, players, connected, identity)
  /\ sceneFrames = 0
  /\ playerRotationRef = 0
  /\ forwardVectorRef = Vec(0, 0, -1000)
  /\ lastCommand = NoCommand
  /\ elapsed = 0
  /\ pendingEffect = FALSE
  /\ dropped = NoScene
  /\ runs = [A |-> NoRun, B |-> NoRun]

-----------------------------------------------------------------------------
(* App.tsx: input sampler (interval callback + sendInput) and RTT tracker *)

PENDING_LIMIT == 100     \* inputTimestampsRef.current.size > 100, lastInputSeq - 100
STATS_PERIOD == 60       \* safeInputState.sequence % 60 === 0
ClockStep == 40          \* granularity of the clock (ms)

NoAck == [seq |-> 0, pending |-> FALSE, sentTime |-> 0, time |-> 0, samples |-> 0]

InitRttVars ==
  /\ sequence = 0
  /\ inputTimestampsRef = <<>>
  /\ rttSamples = <<>>
  /\ lastSentSequence = 0
  /\ clock = 0
  /\ lastAck = NoAck

\* Map.set
MapSet(m, k, v) == [x \in DOMAIN m \cup {k} |-> IF x = k THEN v ELSE m[x]]
\* Map.delete
MapDelete(m, k) == [x \in DOMAIN m \ {k} |-> m[x]]

\* the RTT statistics block of sendInput: the sample window after it
StatsWindow(seq, samples) ==
  IF seq % STATS_PERIOD = 0 /\ Len(samples) > 0 THEN <<>> ELSE samples

RECURSIVE Reduce(_, _, _)
\* samples.reduce(op, acc) of the first n samples, op one of "sum", "max", "min"
Reduce(op, samples, n) ==
  IF n = 0 THEN (IF op = "sum" THEN 0 ELSE IF op = "max" THEN -1 ELSE 1000000)
  ELSE LET acc == Reduce(op, samples, n - 1)
           x == samples[n]
       IN IF op = "sum" THEN acc + x
          ELSE IF op = "max" THEN (IF x > acc THEN x ELSE acc)
          ELSE (IF x < acc THEN x ELSE acc)

\* variant of StatsReports: the report line counts each sample it has seen so far
StatsReports_Cumulative(seq, samples, logged) ==
  IF seq % STATS_PERIOD = 0 /\ Len(samples) > 0
    THEN LET all == IF Len(logged) = 0 THEN samples
                    ELSE logged[Len(logged)].window \o samples
         IN Append(logged, [sequence |-> seq,
                            avg |-> RoundDiv(Reduce("sum", all, Len(all)), Len(all)),
                            max |-> Reduce("max", all, Len(all)),
                            min |-> Reduce("min", all, Len(all)),
                            window |-> all])
    ELSE logged

\* the [NET STATS] lines with statistics logged so far: avg.toFixed(0), min, max of
\* window.rttSamples at the moment of the report
StatsReports(seq, samples, logged) ==
  IF seq % STATS_PERIOD = 0 /\ Len(samples) > 0
    THEN Append(logged, [sequence |-> seq,
                         avg |-> RoundDiv(Reduce("sum", samples, Len(samples)),
                                          Len(samples)),
                         max |-> Reduce("max", samples, Len(samples)),
                         min |-> Reduce("min", samples, Len(samples)),
                         window |-> samples])
    ELSE logged

\* "!conn || !identity || !connected" as the closures of the interval see it
Offline == ~conn \/ interval.identity = NoIdentity \/ ~interval.connected

\* sendInput: the state it leaves
sendInput(seq) ==
  IF Offline
    THEN UNCHANGED <<rttSamples, inputTimestampsRef, lastSentSequence, sentCommands,
                     lastCommand, reports>>
  ELSE IF seq # lastSentSequence
    THEN /\ rttSamples' = StatsWindow(seq, rttSamples)
         /\ reports' = StatsReports(seq, rttSamples, reports)
         /\ inputTimestampsRef' = MapSet(inputTimestampsRef, seq, clock)
         /\ sentCommands' = Append(sentCommands, seq)
         /\ lastCommand' = [sequence |-> seq, yaw |-> playerRotationRef,
                            forwardVector |-> forwardVectorRef]
         /\ lastSentSequence' = seq
    ELSE UNCHANGED <<rttSamples, inputTimestampsRef, lastSentSequence, sentCommands,
                     lastCommand, reports>>

\* variant of SamplerTick: the callback does not test the connection
SamplerTick_NoGuard ==
  /\ interval.running
  /\ sequence' = sequence + 1
  /\ sendInput(sequence + 1)
  /\ UNCHANGED <<clock, lastAck>>
  /\ UNCHANGED <<conn, connected, identity, identityRef, players, localPlayer, interval,
                 highestAck, connects, lastEvent>>
  /\ UNCHANGED <<localVars, dirVars, remoteVars, moveVars, twinVars>>
  /\ UNCHANGED <<lookVars, projVars, animVars>>
  /\ UNCHANGED <<scene, sceneFrames, playerRotationRef, forwardVectorRef, pendingEffect,
                 dropped>>
  /\ UNCHANGED elapsed

\* the body of the setInterval callback of the game loop effect
SamplerCallback ==
  /\ interval.running
  /\ IF Offline
       THEN UNCHANGED <<sequence, rttSamples, inputTimestampsRef, lastSentSequence,
                        sentCommands, lastCommand, reports>>
       ELSE /\ sequence' = sequence + 1
            /\ sendInput(sequence + 1)
  /\ UNCHANGED <<clock, lastAck>>
  /\ UNCHANGED <<conn, connected, identity, identityRef, players, localPlayer, interval,
                 highestAck, connects, lastEvent>>
  /\ UNCHANGED <<localVars, dirVars, remoteVars, moveVars, twinVars>>
  /\ UNCHANGED <<lookVars, projVars, animVars>>
  /\ UNCHANGED <<scene, sceneFrames, playerRotationRef, forwardVectorRef, pendingEffect,
                 dropped>>

\* the setInterval callback of the game loop effect, run at any time
SamplerTick ==
  /\ SamplerCallback
  /\ UNCHANGED elapsed

TimerSteps == 2      \* timer steps in one period of the interval (1000 / 60 ms)

\* time passes while the interval is pending, short of a full period
TimePasses ==
  /\ interval.running
  /\ elapsed < TimerSteps - 1
  /\ elapsed' = elapsed + 1
  /\ UNCHANGED <<scene, sceneFrames, playerRotationRef, forwardVectorRef, lastCommand,
                 pendingEffect, dropped>>
  /\ UNCHANGED <<localVars, dirVars, remoteVars, rttVars, sessionVars, moveVars,
                 twinVars, sideVars>>

\* the period of the interval completes: the callback runs and the next period starts
TimerFires ==
  /\ elapsed = TimerSteps - 1
  /\ SamplerCallback
  /\ elapsed' = 0

\* the pending table after the RTT block of onUpdate
AckTable(table, seq) ==
  IF seq # 0 /\ seq \in DOMAIN table /\ table[seq] # 0
    THEN LET t1 == MapDelete(table, seq)
         IN IF Cardinality(DOMAIN t1) > PENDING_LIMIT
              THEN MapDelete(t1, seq - PENDING_LIMIT) ELSE t1
    ELSE table

\* the sample window after the RTT block of onUpdate
AckSamples(table, samples, seq, now) ==
  IF seq # 0 /\ seq \in DOMAIN table /\ table[seq] # 0
    THEN Append(samples, now - table[seq])
    ELSE samples

\* variant of onUpdate: a row whose sequence has no pending entry is dropped
onUpdate_DropUnmatched(newPlayer) ==
  /\ conn
  /\ IF identityRef # NoIdentity /\ newPlayer.identity = identityRef
       THEN /\ players' = IF newPlayer.lastInputSeq \in DOMAIN inputTimestampsRef
                            THEN MapSet(players, newPlayer.identity, newPlayer)
                            ELSE players
            /\ localPlayer' = newPlayer
            /\ rttSamples' = AckSamples(inputTimestampsRef, rttSamples,
                                        newPlayer.lastInputSeq, clock)
            /\ inputTimestampsRef' = AckTable(inputTimestampsRef, newPlayer.lastInputSeq)
            /\ lastAck' = [seq |-> newPlayer.lastInputSeq,
                           pending |-> newPlayer.lastInputSeq \in DOMAIN inputTimestampsRef,
                           sentTime |-> IF newPlayer.lastInputSeq \in DOMAIN inputTimestampsRef
                                          THEN inputTimestampsRef[newPlayer.lastInputSeq]
                                          ELSE 0,
                           time |-> clock, samples |-> Len(rttSamples)]
            /\ highestAck' = IF newPlayer.lastInputSeq > highestAck
                               THEN newPlayer.lastInputSeq ELSE highestAck
       ELSE /\ players' = MapSet(players, newPlayer.identity, newPlayer)
            /\ UNCHANGED <<localPlayer, rttSamples, inputTimestampsRef, lastAck, highestAck>>
  /\ lastEvent' = [name |-> "onUpdate", row |-> newPlayer,
                   size |-> Cardinality(DOMAIN players), seq |-> sequence]
  /\ UNCHANGED <<sequence, lastSentSequence, clock>>
  /\ UNCHANGED <<conn, connected, identity, identityRef, interval, sentCommands, connects>>
  /\ UNCHANGED <<localVars, dirVars, remoteVars, moveVars, twinVars, sideVars>>
  /\ SceneRendered

\* variant of onUpdate: the callback also copies the row's position into the predicted
\* position of the local component
onUpdate_WritesPredicted(newPlayer) ==
  /\ conn
  /\ players' = MapSet(players, newPlayer.identity, newPlayer)
  /\ IF identityRef # NoIdentity /\ newPlayer.identity = identityRef
       THEN /\ localPlayer' = newPlayer
            /\ rttSamples' = AckSamples(inputTimestampsRef, rttSamples,
                                        newPlayer.lastInputSeq, clock)
            /\ inputTimestampsRef' = AckTable(inputTimestampsRef, newPlayer.lastInputSeq)
            /\ lastAck' = [seq |-> newPlayer.lastInputSeq,
                           pending |-> newPlayer.lastInputSeq \in DOMAIN inputTimestampsRef,
                           sentTime |-> IF newPlayer.lastInputSeq \in DOMAIN inputTimestampsRef
                                          THEN inputTimestampsRef[newPlayer.lastInputSeq]
                                          ELSE 0,
                           time |-> clock, samples |-> Len(rttSamples)]
            /\ highestAck' = IF newPlayer.lastInputSeq > highestAck
                               THEN newPlayer.lastInputSeq ELSE highestAck
       ELSE UNCHANGED <<localPlayer, rttSamples, inputTimestampsRef, lastAck, highestAck>>
  /\ lastEvent' = [name |-> "onUpdate", row |-> newPlayer,
                   size |-> Cardinality(DOMAIN players), seq |-> sequence]
  /\ UNCHANGED <<sequence, lastSentSequence, clock>>
  /\ UNCHANGED <<conn, connected, identity, identityRef, interval, sentCommands, connects>>
  /\ UNCHANGED <<localVars, dirVars, remoteVars, moveVars, twinVars, sideVars>>
  /\ scene' = [id \in DOMAIN Render(scene, players', connected', identity') |->
                 IF Render(scene, players', connected', identity')[id].isLocalPlayer
                    /\ id = newPlayer.identity
                   THEN [Render(scene, players', connected', identity')[id]
                           EXCEPT !.localPositionRef = newPlayer.position]
                   ELSE Render(scene, players', connected', identity')[id]]
  /\ dropped' = Dropped(scene, Render(scene, players', connected', identity'), dropped)
  /\ pendingEffect' = (pendingEffect \/ localPlayer' # localPlayer)
  /\ UNCHANGED <<sceneFrames, playerRotationRef, forwardVectorRef, lastCommand, elapsed>>

\* conn.db.player.onUpdate delivering the row newPlayer
onUpdate(newPlayer) ==
  /\ conn
  /\ players' = MapSet(players, newPlayer.identity, newPlayer)
  /\ IF identityRef # NoIdentity /\ newPlayer.identity = identityRef
       THEN /\ localPlayer' = newPlayer
            /\ rttSamples' = AckSamples(inputTimestampsRef, rttSamples,
                                        newPlayer.lastInputSeq, clock)
            /\ inputTimestampsRef' = AckTable(inputTimestampsRef, newPlayer.lastInputSeq)
            /\ lastAck' = [seq |-> newPlayer.lastInputSeq,
                           pending |-> newPlayer.lastInputSeq \in DOMAIN inputTimestampsRef,
                           sentTime |-> IF newPlayer.lastInputSeq \in DOMAIN inputTimestampsRef
                                          THEN inputTimestampsRef[newPlayer.lastInputSeq]
                                          ELSE 0,
                           time |-> clock, samples |-> Len(rttSamples)]
            /\ highestAck' = IF newPlayer.lastInputSeq > highestAck
                               THEN newPlayer.lastInputSeq ELSE highestAck
       ELSE UNCHANGED <<localPlayer, rttSamples, inputTimestampsRef, lastAck, highestAck>>
  /\ lastEvent' = [name |-> "onUpdate", row |-> newPlayer,
                   size |-> Cardinality(DOMAIN players), seq |-> sequence]
  /\ UNCHANGED <<sequence, lastSentSequence, clock>>
  /\ UNCHANGED <<conn, connected, identity, identityRef, interval, sentCommands, connects>>
  /\ UNCHANGED <<localVars, dirVars, remoteVars, moveVars, twinVars, sideVars>>
  /\ SceneRendered

\* conn.db.player.onUpdate for the local entity carrying lastInputSeq = seq
Acknowledge(seq) == onUpdate([localPlayer EXCEPT !.lastInputSeq = seq])

\* time passes
AdvanceClock ==
  /\ clock < MaxClock * ClockStep
  /\ clock' = clock + ClockStep
  /\ UNCHANGED <<sequence, inputTimestampsRef, rttSamples, lastSentSequence, lastAck>>
  /\ UNCHANGED <<localVars, dirVars, remoteVars, sessionVars, moveVars, sceneVars,
                 twinVars, sideVars>>

-----------------------------------------------------------------------------
(* App.tsx: connection handlers, table callbacks, effects *)

\* positions of the rows the server sends in the session runs
SessionPositions == {Origin, Vec(1000, 0, 0)}
\* conn.db.player.iter() when the subscription is applied
ServerTables == {NoPlayers,
                 [id \in {LocalId} |-> Row(id, Origin, 0)],
                 [id \in Ids |-> Row(id, Origin, 0)]}
\* performance.now() during the session runs
SessionClock == 40

\* the Player components GameScene renders
MountedPlayers == IF connected THEN DOMAIN players ELSE {}

\* onConnect of the connection effect
onConnect ==
  /\ ~conn
  /\ conn' = TRUE
  /\ identity' = LocalId
  /\ connected' = TRUE
  /\ connects' = connects + 1
  /\ lastEvent' = [name |-> "onConnect", row |-> NoPlayer,
                   size |-> Cardinality(DOMAIN players), seq |-> sequence]
  /\ UNCHANGED <<identityRef, players, localPlayer, interval, sentCommands, highestAck>>
  /\ UNCHANGED <<localVars, dirVars, remoteVars, rttVars, moveVars, twinVars, sideVars>>
  /\ SceneRendered

\* variant of onDisconnect: the entity table is kept
onDisconnect_KeepsPlayers ==
  /\ conn
  /\ conn' = FALSE
  /\ identity' = NoIdentity
  /\ connected' = FALSE
  /\ localPlayer' = NoPlayer
  /\ lastEvent' = [name |-> "onDisconnect", row |-> NoPlayer,
                   size |-> Cardinality(DOMAIN players), seq |-> sequence]
  /\ UNCHANGED <<players, identityRef, interval, sentCommands, highestAck, connects>>
  /\ UNCHANGED <<localVars, dirVars, remoteVars, rttVars, moveVars, twinVars, sideVars>>
  /\ SceneRendered

\* variant of onDisconnect: the sequence counter starts again from 0
onDisconnect_ResetsSequence ==
  /\ conn
  /\ conn' = FALSE
  /\ identity' = NoIdentity
  /\ connected' = FALSE
  /\ players' = NoPlayers
  /\ localPlayer' = NoPlayer
  /\ sequence' = 0
  /\ lastSentSequence' = 0
  /\ lastEvent' = [name |-> "onDisconnect", row |-> NoPlayer,
                   size |-> Cardinality(DOMAIN players), seq |-> sequence]
  /\ UNCHANGED <<identityRef, interval, sentCommands, highestAck, connects>>
  /\ UNCHANGED <<inputTimestampsRef, rttSamples, clock, lastAck>>
  /\ UNCHANGED <<localVars, dirVars, remoteVars, moveVars, twinVars, sideVars>>
  /\ SceneRendered

\* onDisconnect of the connection effect
onDisconnect ==
  /\ conn
  /\ conn' = FALSE
  /\ identity' = NoIdentity
  /\ connected' = FALSE
  /\ players' = NoPlayers
  /\ localPlayer' = NoPlayer
  /\ lastEvent' = [name |-> "onDisconnect", row |-> NoPlayer,
                   size |-> Cardinality(DOMAIN players), seq |-> sequence]
  /\ UNCHANGED <<identityRef, interval, sentCommands, highestAck, connects>>
  /\ UNCHANGED <<localVars, dirVars, remoteVars, rttVars, moveVars, twinVars, sideVars>>
  /\ SceneRendered

\* the interval the game loop effect leaves for the rendered state
GameLoopInterval ==
  IF connected /\ conn /\ identity # NoIdentity
    THEN [running |-> TRUE, connected |-> connected, identity |-> identity]
    ELSE NoInterval

\* effects of the commit that follows a state change: identityRef sync, and the
\* game loop effect (cleanup clears the old interval, the body sets a new one)
RunEffects ==
  /\ identityRef # identity \/ interval # GameLoopInterval \/ pendingEffect
  /\ identityRef' = identity
  /\ interval' = GameLoopInterval
  /\ UNCHANGED <<conn, connected, identity, players, localPlayer, sentCommands,
                 highestAck, connects, lastEvent>>
  /\ UNCHANGED <<localVars, dirVars, remoteVars, rttVars, moveVars, twinVars, sideVars>>
  /\ elapsed' = IF interval # GameLoopInterval \/ pendingEffect THEN 0 ELSE elapsed
  /\ pendingEffect' = FALSE
  /\ UNCHANGED <<scene, sceneFrames, playerRotationRef, forwardVectorRef, lastCommand,
                 dropped>>

\* conn.db.player.onInsert delivering the row player
\* variant of onInsert: an entry already in the table is kept
onInsert_KeepsExisting(player) ==
  /\ conn
  /\ players' = IF player.identity \in DOMAIN players
                  THEN players ELSE MapSet(players, player.identity, player)
  /\ localPlayer' = IF identityRef # NoIdentity /\ player.identity = identityRef
                      THEN player ELSE localPlayer
  /\ lastEvent' = [name |-> "onInsert", row |-> player,
                   size |-> Cardinality(DOMAIN players), seq |-> sequence]
  /\ UNCHANGED <<conn, connected, identity, identityRef, interval, sentCommands,
                 highestAck, connects>>
  /\ UNCHANGED <<localVars, dirVars, remoteVars, rttVars, moveVars, twinVars, sideVars>>
  /\ SceneRendered

onInsert(player) ==
  /\ conn
  /\ players' = MapSet(players, player.identity, player)
  /\ localPlayer' = IF identityRef # NoIdentity /\ player.identity = identityRef
                      THEN player ELSE localPlayer
  /\ lastEvent' = [name |-> "onInsert", row |-> player,
                   size |-> Cardinality(DOMAIN players), seq |-> sequence]
  /\ UNCHANGED <<conn, connected, identity, identityRef, interval, sentCommands,
                 highestAck, connects>>
  /\ UNCHANGED <<localVars, dirVars, remoteVars, rttVars, moveVars, twinVars, sideVars>>
  /\ SceneRendered

\* conn.db.player.onDelete for the row of identity id
onDelete(id) ==
  /\ conn
  /\ players' = MapDelete(players, id)
  /\ localPlayer' = IF identityRef # NoIdentity /\ id = identityRef
                      THEN NoPlayer ELSE localPlayer
  /\ lastEvent' = [name |-> "onDelete", row |-> Row(id, Origin, 0),
                   size |-> Cardinality(DOMAIN players), seq |-> sequence]
  /\ UNCHANGED <<conn, connected, identity, identityRef, interval, sentCommands,
                 highestAck, connects>>
  /\ UNCHANGED <<localVars, dirVars, remoteVars, rttVars, moveVars, twinVars, sideVars>>
  /\ SceneRendered

\* onSubscriptionApplied, the client cache holding rows
onSubscriptionApplied(rows) ==
  /\ conn
  /\ IF DOMAIN players = {}
       THEN /\ players' = rows
            /\ localPlayer' = IF identityRef # NoIdentity /\ identityRef \in DOMAIN rows
                                THEN rows[identityRef] ELSE localPlayer
       ELSE UNCHANGED <<players, localPlayer>>
  /\ lastEvent' = [name |-> "onSubscriptionApplied", row |-> NoPlayer,
                   size |-> Cardinality(DOMAIN players), seq |-> sequence]
  /\ UNCHANGED <<conn, connected, identity, identityRef, interval, sentCommands,
                 highestAck, connects>>
  /\ UNCHANGED <<localVars, dirVars, remoteVars, rttVars, moveVars, twinVars>>
  /\ projectiles' = projectileCache
  /\ UNCHANGED <<projectileCache, projectileMeshes, sceneChildren, projFrames,
                 removedMeshes>>
  /\ UNCHANGED <<reports, lookVars, animVars>>
  /\ SceneRendered

-----------------------------------------------------------------------------
(* Player.tsx: the frame, the model load and the mouse handler of the mounted components *)

SceneDelta == 50        \* time between two frames of the scene runs (ms)

\* variant of PlayerFrame: the branch is chosen by identityRef instead of the prop
PlayerFrame_ByIdentityRef(c, id, serverPosition, now) ==
  IF ~c.modelLoaded THEN [c EXCEPT !.ran = {}]
  ELSE IF identityRef # NoIdentity /\ id = identityRef
    THEN LET m == calculateClientMovement(c.localPositionRef, c.localRotationRef,
                                          currentInput, c.verticalVelocity, c.prevJumpRef)
             r == Reconcile(m.pos, serverPosition)
         IN [c EXCEPT !.localPositionRef = r.pos,
                      !.verticalVelocity = m.vv,
                      !.prevJumpRef = m.prevJump,
                      !.ran = {"local"}]
    ELSE LET buffer == PushSnapshot(c.remotePositionBuffer, serverPosition, now)
         IN [c EXCEPT !.remotePositionBuffer = buffer,
                      !.remoteTargetPosition =
                         InterpolationTarget(buffer, serverPosition, now - RENDER_DELAY),
                      !.ran = {"remote"}]

\* useFrame of the component c of entity id: nothing before the model is loaded, then
\* the branch "isLocalPlayer && currentInput" or the remote branch
PlayerFrame(c, id, serverPosition, now) ==
  IF ~c.modelLoaded THEN [c EXCEPT !.ran = {}]
  ELSE IF c.isLocalPlayer
    THEN LET m == calculateClientMovement(c.localPositionRef, c.localRotationRef,
                                          currentInput, c.verticalVelocity, c.prevJumpRef)
             r == Reconcile(m.pos, serverPosition)
         IN [c EXCEPT !.localPositionRef = r.pos,
                      !.verticalVelocity = m.vv,
                      !.prevJumpRef = m.prevJump,
                      !.ran = {"local"}]
    ELSE LET buffer == PushSnapshot(c.remotePositionBuffer, serverPosition, now)
         IN [c EXCEPT !.remotePositionBuffer = buffer,
                      !.remoteTargetPosition =
                         InterpolationTarget(buffer, serverPosition, now - RENDER_DELAY),
                      !.ran = {"remote"}]

\* one rendered frame: the useFrame callback of every mounted component runs
SceneFrame ==
  /\ connected
  /\ clock' = clock + SceneDelta
  /\ scene' = [id \in DOMAIN scene |->
                 PlayerFrame(scene[id], id, players[id].position, clock + SceneDelta)]
  /\ sceneFrames' = sceneFrames + 1
  /\ UNCHANGED <<playerRotationRef, forwardVectorRef, lastCommand, elapsed, pendingEffect,
                 dropped>>
  /\ UNCHANGED <<sequence, inputTimestampsRef, rttSamples, lastSentSequence, lastAck>>
  /\ UNCHANGED <<localVars, dirVars, remoteVars, sessionVars, moveVars, twinVars, sideVars>>

\* FBXLoader onLoad callback of the component of entity id
Loaded(c) ==
  IF c.isLocalPlayer
    THEN [c EXCEPT !.modelLoaded = TRUE,
                   !.localPositionRef = c.mountData.position,
                   !.localRotationRef = c.mountData.rotation]
    ELSE [c EXCEPT !.modelLoaded = TRUE]

SceneModelLoad(id) ==
  /\ id \in DOMAIN scene
  /\ ~scene[id].modelLoaded
  /\ scene' = [scene EXCEPT ![id] = Loaded(scene[id])]
  /\ UNCHANGED <<sceneFrames, playerRotationRef, forwardVectorRef, lastCommand, elapsed,
                 pendingEffect, dropped>>
  /\ UNCHANGED <<localVars, dirVars, remoteVars, rttVars, sessionVars, moveVars,
                 twinVars, sideVars>>

\* handleMouseMove (pointer locked, follow camera) turning the yaw by d quarter turns,
\* and handlePlayerRotation of App through onRotationChange
MouseMove(d) ==
  /\ \E id \in DOMAIN scene :
       /\ scene[id].isLocalPlayer
       /\ scene' = [scene EXCEPT ![id].localRotationRef = (scene[id].localRotationRef + d) % 4]
       /\ playerRotationRef' = (scene[id].localRotationRef + d) % 4
  /\ UNCHANGED <<sceneFrames, forwardVectorRef, lastCommand, elapsed, pendingEffect,
                 dropped>>
  /\ UNCHANGED <<localVars, dirVars, remoteVars, rttVars, sessionVars, moveVars,
                 twinVars, sideVars>>

-----------------------------------------------------------------------------
(* Player.tsx: the planar move of calculateClientMovement on one input *)

InitMoveVars ==
  /\ moveYaw \in 0..3
  /\ moveVector = Origin
  /\ moveDone = FALSE

MoveVarsUnused ==
  /\ moveYaw = 0
  /\ moveVector = Origin
  /\ moveDone = FALSE

\* one predictor tick from the origin, at rest, with input dirInput and yaw moveYaw
PredictMove ==
  /\ ~moveDone
  /\ moveVector' = calculateClientMovement(Origin, moveYaw, dirInput, 0, FALSE).pos
  /\ moveDone' = TRUE
  /\ UNCHANGED moveYaw
  /\ UNCHANGED <<localVars, dirVars, remoteVars, rttVars, sessionVars, sceneVars,
                 twinVars, sideVars>>

-----------------------------------------------------------------------------
(* Specifications *)

\* the local player: prediction and reconciliation
InitLocal == InitLocalVars /\ DirVarsUnused /\ RemoteVarsUnused /\ InitRttVars
             /\ SessionEstablished /\ MoveVarsUnused /\ InitSceneVars
NextLocal ==
  \/ ModelLoad
  \/ \E k \in LocalKeys : KeyDown(k)
  \/ \E k \in LocalKeys : KeyUp(k)
  \/ \E p \in SnapPositions : SnapshotArrives(p)
  \/ frameCounter < MaxFrames /\ LocalFrame
SpecLocal == InitLocal /\ [][NextLocal]_vars

\* the local player: longer runs with the jump key
NextJump ==
  \/ ModelLoad
  \/ \E k \in JumpKeys : KeyDown(k)
  \/ \E k \in JumpKeys : KeyUp(k)
  \/ \E p \in JumpPositions : SnapshotArrives(p)
  \/ frameCounter < MaxJumpFrames /\ LocalFrame
SpecJump == InitLocal /\ [][NextJump]_vars

\* the local player: a jump held until the entity is back on the ground
NextLanding ==
  \/ ModelLoad
  \/ KeyDown("jump")
  \/ localPositionRef.y <= 0 /\ KeyUp("jump")
  \/ frameCounter < MaxLandFrames /\ LocalFrame
SpecLanding == InitLocal /\ [][NextLanding]_vars

\* the local player left idle while the reconciler closes the error
NextConverge ==
  \/ ModelLoad
  \/ KeyDown("sprint")
  \/ KeyUp("sprint")
  \/ \E p \in ConvergePositions : SnapshotArrives(p)
  \/ frameCounter < MaxConvergeFrames /\ LocalFrame
SpecConverge == InitLocal /\ [][NextConverge]_vars

\* the local player: snapshots that carry a position and a rotation
NextTier ==
  \/ ModelLoad
  \/ \E k \in JumpKeys : KeyDown(k)
  \/ \E k \in JumpKeys : KeyUp(k)
  \/ \E p \in JumpPositions, r \in SnapYaws : SnapshotUpdate(p, r)
  \/ frameCounter < MaxTierFrames /\ LocalFrame
SpecTier == InitLocal /\ [][NextTier]_vars

\* the direction logic on every input
InitDir == InitLocalVars /\ InitDirVars /\ RemoteVarsUnused
           /\ InitRttVars /\ SessionEstablished /\ MoveVarsUnused /\ InitSceneVars
NextDir == DetermineAnimations
SpecDir == InitDir /\ [][NextDir]_vars

\* a remote player: short runs with varied frame times and positions
InitRemote == InitLocalVars /\ DirVarsUnused /\ InitRemoteVars
              /\ InitRttVars /\ SessionEstablished /\ MoveVarsUnused /\ InitSceneVars
NextRemote ==
  \/ \E p \in RemotePositions : RemoteSnapshot(p)
  \/ \E dt \in FrameDeltas : remoteFrames < MaxRemoteFrames /\ RemoteFrame(dt)
SpecRemote == InitRemote /\ [][NextRemote]_vars

\* a remote player: long runs that fill the buffer
NextBuffer ==
  \/ \E p \in BufferPositions : RemoteSnapshot(p)
  \/ \E dt \in BufferDeltas : remoteFrames < MaxBufferFrames /\ RemoteFrame(dt)
SpecBuffer == InitRemote /\ [][NextBuffer]_vars

\* sampler and RTT tracker with acknowledgments
InitRtt == InitLocalVars /\ DirVarsUnused /\ RemoteVarsUnused
           /\ InitRttVars /\ SessionEstablished /\ MoveVarsUnused /\ InitSceneVars
NextRtt ==
  \/ sequence < MaxSequence /\ SamplerTick
  \/ \E s \in 0..sequence : Acknowledge(s)
  \/ AdvanceClock
SpecRtt == InitRtt /\ [][NextRtt]_vars

\* sampler under total packet loss: no acknowledgment ever arrives
NextLoss == sequence < MaxLossSequence /\ SamplerTick
SpecLoss == InitRtt /\ [][NextLoss]_vars

\* connection, table callbacks, effects and sampler over several connections
InitSession ==
  /\ InitLocalVars /\ DirVarsUnused /\ RemoteVarsUnused /\ MoveVarsUnused
  /\ InitSessionVars
  /\ sequence = 0
  /\ inputTimestampsRef = <<>>
  /\ rttSamples = <<>>
  /\ lastSentSequence = 0
  /\ clock = SessionClock
  /\ lastAck = NoAck
  /\ InitSceneVars
NextSession ==
  \/ connects < MaxConnects /\ onConnect
  \/ onDisconnect
  \/ RunEffects
  \/ sequence < MaxSessionSequence /\ SamplerTick
  \/ \E id \in Ids, p \in SessionPositions : onInsert(Row(id, p, 0))
  \/ \E id \in Ids, p \in SessionPositions :
       \E s \in (IF id = LocalId THEN 0..sequence ELSE {0}) : onUpdate(Row(id, p, s))
  \/ \E id \in Ids : onDelete(id)
  \/ \E rows \in ServerTables : onSubscriptionApplied(rows)
SpecSession == InitSession /\ [][NextSession]_vars

\* the entity table, its Player components and their frames
MaxSceneFrames == 2     \* rendered frames per run (scene runs)
MaxSceneConnects == 1   \* connections per run (scene runs)
SceneRows == {Row(id, p, 0) : id \in Ids, p \in SessionPositions}
NextScene ==
  \/ connects < MaxSceneConnects /\ onConnect
  \/ onDisconnect
  \/ RunEffects
  \/ \E row \in SceneRows : onInsert(row)
  \/ \E row \in SceneRows : onUpdate(row)
  \/ \E id \in Ids : onDelete(id)
  \/ \E id \in Ids : SceneModelLoad(id)
  \/ sceneFrames < MaxSceneFrames /\ SceneFrame
SpecScene == InitSession /\ [][NextScene]_vars

\* the local entity: table callbacks, frames, look input and sampler
MaxLookFrames == 1      \* rendered frames per run (look runs)
MaxLookSequence == 1    \* sampler ticks per run (look runs)
LookRows == {[Row(LocalId, p, 0) EXCEPT !.rotation = r] :
               p \in SessionPositions, r \in {0, 1}}
NextLook ==
  \/ connects < MaxSceneConnects /\ onConnect
  \/ onDisconnect
  \/ RunEffects
  \/ \E row \in LookRows : onInsert(row)
  \/ \E p \in SessionPositions :
       onUpdate([Row(LocalId, p, 0) EXCEPT
                   !.rotation = IF LocalId \in DOMAIN players
                                  THEN players[LocalId].rotation ELSE 0])
  \/ onDelete(LocalId)
  \/ SceneModelLoad(LocalId)
  \/ MouseMove(2)
  \/ sceneFrames < MaxLookFrames /\ SceneFrame
  \/ sequence < MaxLookSequence /\ SamplerTick
SpecLook == InitSession /\ [][NextLook]_vars

\* sampler whose first acknowledgments arrive after FirstAgeAck sends
InitAge ==
  /\ InitLocalVars /\ DirVarsUnused /\ RemoteVarsUnused /\ MoveVarsUnused
  /\ SessionEstablished
  /\ sequence = 0
  /\ inputTimestampsRef = <<>>
  /\ rttSamples = <<>>
  /\ lastSentSequence = 0
  /\ clock = SessionClock
  /\ lastAck = NoAck
  /\ InitSceneVars
NextAge ==
  \/ sequence < MaxAgeSequence /\ SamplerTick
  \/ sequence >= FirstAgeAck /\ Acknowledge(sequence)
SpecAge == InitAge /\ [][NextAge]_vars

\* the projectile table and the ProjectileManager
MaxProjFrames == 3
ProjectileIds == {"p1", "p2"}
ProjectilePositions == {Origin, Vec(1000, 0, 0)}
PROJECTILE_LERP == 2000  \* mesh.position.lerp(serverPos, 0.2)

ProjectileRow(id, p) == [id |-> id, position |-> p]

UNCHANGED_Meshes ==
  /\ UNCHANGED <<projectileMeshes, sceneChildren, projFrames, removedMeshes>>
  /\ UNCHANGED <<reports, lookVars, animVars>>
  /\ UNCHANGED <<localVars, dirVars, remoteVars, rttVars, sessionVars, moveVars, sceneVars,
                 twinVars>>

\* conn.db.projectile.onInsert, after a new row entered the client cache, and
\* conn.db.projectile.onUpdate, after a row of the cache was replaced
projectileOnInsert(row) ==
  /\ conn
  /\ row.id \notin DOMAIN projectileCache
  /\ projectileCache' = MapSet(projectileCache, row.id, row)
  /\ projectiles' = MapSet(projectiles, row.id, row)
  /\ UNCHANGED_Meshes

projectileOnUpdate(row) ==
  /\ conn
  /\ row.id \in DOMAIN projectileCache
  /\ projectileCache' = MapSet(projectileCache, row.id, row)
  /\ projectiles' = MapSet(projectiles, row.id, row)
  /\ UNCHANGED_Meshes

\* conn.db.projectile.onDelete
projectileOnDelete(id) ==
  /\ conn
  /\ projectileCache' = MapDelete(projectileCache, id)
  /\ projectiles' = MapDelete(projectiles, id)
  /\ UNCHANGED_Meshes

\* the meshes after step 2 of the frame: created at the row's position when missing,
\* then moved towards it
MeshesFor(kept, rows) ==
  [id \in DOMAIN rows |->
     lerp(IF id \in DOMAIN kept THEN kept[id] ELSE rows[id].position,
          rows[id].position, PROJECTILE_LERP)]

\* variant of ProjectileFrame: step 1, the removal of stale meshes, is missing
ProjectileFrame_NoRemoval ==
  /\ connected
  /\ projectileMeshes' =
       [id \in DOMAIN projectileMeshes \cup DOMAIN projectiles |->
          IF id \in DOMAIN projectiles
            THEN MeshesFor(projectileMeshes, projectiles)[id]
            ELSE projectileMeshes[id]]
  /\ sceneChildren' = sceneChildren \cup DOMAIN projectiles
  /\ projFrames' = projFrames + 1
  /\ UNCHANGED <<projectileCache, projectiles, removedMeshes>>
  /\ UNCHANGED <<reports, lookVars, animVars>>
  /\ UNCHANGED <<localVars, dirVars, remoteVars, rttVars, sessionVars, moveVars, sceneVars,
                 twinVars>>

\* the useFrame callback of the ProjectileManager
ProjectileFrame ==
  /\ connected
  /\ LET stale == DOMAIN projectileMeshes \ DOMAIN projectiles
         kept == [id \in DOMAIN projectileMeshes \ stale |-> projectileMeshes[id]]
         new == DOMAIN projectiles \ DOMAIN kept
     IN /\ projectileMeshes' = MeshesFor(kept, projectiles)
        /\ sceneChildren' = (sceneChildren \ stale) \cup new
        /\ removedMeshes' = removedMeshes \cup stale
  /\ projFrames' = projFrames + 1
  /\ UNCHANGED <<projectileCache, projectiles>>
  /\ UNCHANGED <<reports, lookVars, animVars>>
  /\ UNCHANGED <<localVars, dirVars, remoteVars, rttVars, sessionVars, moveVars, sceneVars,
                 twinVars>>

NextProjectile ==
  \/ \E id \in ProjectileIds, p \in ProjectilePositions :
       projectileOnInsert(ProjectileRow(id, p))
  \/ \E id \in ProjectileIds, p \in ProjectilePositions :
       projectileOnUpdate(ProjectileRow(id, p))
  \/ \E id \in ProjectileIds : projectileOnDelete(id)
  \/ projFrames < MaxProjFrames /\ ProjectileFrame
SpecProjectile == InitLocal /\ [][NextProjectile]_vars

\* the animation loader of a Player component
AnimationCount == 3      \* number of entries of animKeys in the runs
AnimationNames == 1..AnimationCount
totalCount == Cardinality(AnimationNames)
FetchOutcomes == {"ok", "missing", "network"}
LoadOutcomes == {"clip", "empty", "throws", "error"}

UNCHANGED_Loader ==
  /\ UNCHANGED <<reports, lookVars, projVars>>
  /\ UNCHANGED <<localVars, dirVars, remoteVars, rttVars, sessionVars, moveVars, sceneVars,
                 twinVars>>

\* loadAnimations: one fetch per animation is started
loadAnimations ==
  /\ animAttempts = <<>>
  /\ animAttempts' = [n \in AnimationNames |-> "fetching"]
  /\ loadedCount' = 0
  /\ newAnimations' = {}
  /\ UNCHANGED <<animations, completions, pendingAtCompletion>>
  /\ UNCHANGED_Loader

\* checkCompletedLoading called with loadedCount = count, the attempts and the loaded
\* animations as they are at the call
checkCompletedLoading(count, attempts, loaded) ==
  /\ loadedCount' = count + 1
  /\ IF count + 1 = totalCount
       THEN /\ animations' = loaded
            /\ completions' = completions + 1
            /\ pendingAtCompletion' =
                 Cardinality({n \in AnimationNames : attempts[n] # "done"})
       ELSE UNCHANGED <<animations, completions, pendingAtCompletion>>

\* the fetch of animation n settles: the file is there and loader.load starts, the
\* response is not ok, or the request fails
FetchSettles(n, outcome) ==
  /\ animAttempts # <<>>
  /\ animAttempts[n] = "fetching"
  /\ IF outcome = "ok"
       THEN /\ animAttempts' = [animAttempts EXCEPT ![n] = "loading"]
            /\ UNCHANGED <<loadedCount, newAnimations, animations, completions,
                           pendingAtCompletion>>
       ELSE /\ animAttempts' = [animAttempts EXCEPT ![n] = "done"]
            /\ UNCHANGED newAnimations
            /\ checkCompletedLoading(loadedCount + 1, animAttempts', newAnimations)
  /\ UNCHANGED_Loader

\* loader.load of animation n settles: a clip is processed, the file has no clip, the
\* processing throws, or the loader reports an error
LoadSettles(n, outcome) ==
  /\ animAttempts # <<>>
  /\ animAttempts[n] = "loading"
  /\ animAttempts' = [animAttempts EXCEPT ![n] = "done"]
  /\ newAnimations' = IF outcome = "clip" THEN newAnimations \cup {n} ELSE newAnimations
  /\ checkCompletedLoading(loadedCount, animAttempts', newAnimations')
  /\ UNCHANGED_Loader

NextLoader ==
  \/ loadAnimations
  \/ \E n \in AnimationNames, outcome \in FetchOutcomes : FetchSettles(n, outcome)
  \/ \E n \in AnimationNames, outcome \in LoadOutcomes : LoadSettles(n, outcome)
SpecLoader == InitLocal /\ [][NextLoader]_vars

\* the yaw arithmetic of handleMouseMove, in degrees
PI_DEG == 180

\* the JavaScript remainder a % n (n > 0): the result has the sign of a
JsRemainder(a, n) == IF a >= 0 THEN a % n ELSE -((-a) % n)

\* ((yaw + Math.PI) % (2 * Math.PI)) - Math.PI
NormalizeYaw(yaw) == JsRemainder(yaw + PI_DEG, 2 * PI_DEG) - PI_DEG

\* the yaw after a mouse move of dx = e.movementX * SENSITIVITY_YAW (follow camera)
YawAfterMove(yaw, dx) == NormalizeYaw(yaw - dx)

MaxLookMoves == 3
\* rotation.y of the row the model load copies into localRotationRef
LookStartYaws == {-170, 0, 90, 170}
LookDeltas == {-200, -50, -20, 20, 50, 200}

\* FBX onLoad: localRotationRef.current.set(0, playerData.rotation.y, 0)
LookLoad(yaw) ==
  /\ lookMoves = 0
  /\ lookYaw' = yaw
  /\ UNCHANGED lookMoves
  /\ UNCHANGED <<reports, projVars, animVars>>
  /\ UNCHANGED <<localVars, dirVars, remoteVars, rttVars, sessionVars, moveVars, sceneVars,
                 twinVars>>

\* handleMouseMove with the pointer locked, local player, follow camera
LookMove(dx) ==
  /\ lookMoves < MaxLookMoves
  /\ lookYaw' = YawAfterMove(lookYaw, dx)
  /\ lookMoves' = lookMoves + 1
  /\ UNCHANGED <<reports, projVars, animVars>>
  /\ UNCHANGED <<localVars, dirVars, remoteVars, rttVars, sessionVars, moveVars, sceneVars,
                 twinVars>>

NextLookYaw ==
  \/ \E yaw \in LookStartYaws : LookLoad(yaw)
  \/ \E dx \in LookDeltas : LookMove(dx)
SpecLookYaw == InitLocal /\ [][NextLookYaw]_vars

\* the RTT statistics: acknowledgments and time around the commands that report
MaxReportSequence == 120
ReportTime == \/ sequence % STATS_PERIOD >= STATS_PERIOD - 2
              \/ sequence > 0 /\ sequence % STATS_PERIOD = 0
NextReport ==
  \/ sequence < MaxReportSequence /\ SamplerTick
  \/ ReportTime /\ (\E s \in {sequence - 1, sequence} : Acknowledge(s))
  \/ ReportTime /\ AdvanceClock
SpecReport == InitAge /\ [][NextReport]_vars

\* the sampler's timer under snapshots of the local entity.  Time advances (the
\* interval fires when its period completes) and the effects of a commit run
MaxTimerSequence == 3   \* sampler ticks per run (timer runs)
NextTimer ==
  \/ TimePasses
  \/ sequence < MaxTimerSequence /\ TimerFires
  \/ RunEffects
  \/ \E p \in SessionPositions : \E q \in 0..sequence : onUpdate(Row(LocalId, p, q))
SpecTimer == /\ InitAge /\ [][NextTimer]_vars
             /\ WF_vars(TimePasses)
             /\ WF_vars(sequence < MaxTimerSequence /\ TimerFires)
             /\ WF_vars(RunEffects)

\* the planar move on every input and yaw
InitMove == InitLocalVars /\ InitDirVars /\ RemoteVarsUnused /\ InitRttVars
            /\ SessionEstablished /\ InitMoveVars /\ InitSceneVars
NextMove == PredictMove
SpecMove == InitMove /\ [][NextMove]_vars

-----------------------------------------------------------------------------
(* Reconciliation claims (SpecLocal) *)

\* the last frame reconciled predictedPosition against the current playerData.position
FrameSettled == frameCounter > 0 /\ ~freshSnapshot

\* squared distance between the predictor's result and the authoritative position
ErrorSq ==
  (predictedPosition.x - playerData.position.x) * (predictedPosition.x - playerData.position.x)
  + (predictedPosition.y - playerData.position.y) * (predictedPosition.y - playerData.position.y)
  + (predictedPosition.z - playerData.position.z) * (predictedPosition.z - playerData.position.z)

\* predictedPosition moved toward the authoritative position by factor f (1/10000)
Blended(f) ==
  Vec(predictedPosition.x
        + RoundDiv((playerData.position.x - predictedPosition.x) * f, 10000),
      predictedPosition.y
        + RoundDiv((playerData.position.y - predictedPosition.y) * f, 10000),
      predictedPosition.z
        + RoundDiv((playerData.position.z - predictedPosition.z) * f, 10000))

\* C1 as stated: from predicted position (0,0,0), an authoritative position at
\* distance exactly 1.0 is snapped to (predicted = authoritative after the frame),
\* and one at distance 0.999 is not.
C1_SnapAtExactlyOne ==
  (FrameSettled /\ predictedPosition = Origin) =>
    /\ (ErrorSq = 1000 * 1000 => localPositionRef = playerData.position)
    /\ (ErrorSq = 999 * 999 => localPositionRef # playerData.position)

\* C1 amended: from predicted position (0,0,0), an authoritative position at
\* distance exactly 1.0 is not snapped to: the aggressive tier blends with factor
\* 0.3; distance 0.999 is not a snap either; the snap happens exactly when the
\* distance is greater than 1.0.
C1_BlendAtExactlyOne ==
  (FrameSettled /\ predictedPosition = Origin) =>
    /\ (ErrorSq = 1000 * 1000 =>
          /\ reconTier = "aggressive"
          /\ lerpFactor = 3000
          /\ localPositionRef = Blended(3000)
          /\ localPositionRef # playerData.position)
    /\ (ErrorSq = 999 * 999 =>
          /\ reconTier = "aggressive"
          /\ localPositionRef # playerData.position)
    /\ (ErrorSq > 1000 * 1000 <=> reconTier = "snap")
    /\ (reconTier = "snap" => localPositionRef = playerData.position)

\* C1 witness: a frame predicted (0,0,0) against (1,0,0) and blended to (0.3,0,0)
C1_Witness ==
  /\ FrameSettled
  /\ predictedPosition = Origin
  /\ playerData.position = Vec(1000, 0, 0)
  /\ localPositionRef = Vec(300, 0, 0)

\* C9: every frame applies exactly one tier, chosen by the distance d between the
\* predictor's result and the authoritative position: d > 1.0 replaces the position
\* by the authoritative one; 0.2 < d <= 1.0 blends by min(0.3, 0.15 + 0.3 d);
\* d <= 0.2 blends by 0.05.
C9_CorrectionPolicy ==
  FrameSettled =>
    /\ (distError - 1) * (distError - 1) < ErrorSq \/ ErrorSq = 0
    /\ ErrorSq <= distError * distError
    /\ reconTier \in {"snap", "aggressive", "gentle"}
    /\ (reconTier = "snap" <=> ErrorSq > 1000 * 1000)
    /\ (reconTier = "aggressive" <=> (ErrorSq > 200 * 200 /\ ErrorSq <= 1000 * 1000))
    /\ (reconTier = "gentle" <=> ErrorSq <= 200 * 200)
    /\ (reconTier = "snap" => localPositionRef = playerData.position)
    /\ (reconTier = "aggressive" =>
          /\ lerpFactor = (IF 1500 + 3 * distError > 3000 THEN 3000
                           ELSE 1500 + 3 * distError)
          /\ localPositionRef = Blended(lerpFactor))
    /\ (reconTier = "gentle" =>
          /\ lerpFactor = 500
          /\ localPositionRef = Blended(500))

\* C9 witness: the aggressive tier applied with a factor strictly between floor and ceiling
C9_Witness ==
  /\ FrameSettled
  /\ reconTier = "aggressive"
  /\ lerpFactor > 1500
  /\ lerpFactor < 3000
  /\ localPositionRef # predictedPosition

\* C3 as stated: a frame that runs with no new snapshot since the previous frame
\* leaves the predicted position at the predictor's result (no blend, no snap).
C3_NoReconcileWithoutSnapshot ==
  (frameCounter >= 2 /\ ~lastFrameFresh) => localPositionRef = predictedPosition

\* C3 amended: reconciliation runs in every frame, against the latest snapshot
\* received: also in a frame with no new snapshot since the previous frame the
\* predictor's result is snapped to the old snapshot (distance > 1.0) or blended
\* toward it by the factor of its tier.
C3_ReconcileEveryFrame ==
  (frameCounter >= 2 /\ ~lastFrameFresh /\ ~freshSnapshot) =>
    /\ reconTier # "none"
    /\ localPositionRef =
         (IF ErrorSq > 1000 * 1000 THEN playerData.position
          ELSE IF ErrorSq > 200 * 200
            THEN Blended(IF 1500 + 3 * distError > 3000 THEN 3000
                         ELSE 1500 + 3 * distError)
          ELSE Blended(500))

\* C3 witness: a second frame, with no snapshot since the first, that blended the
\* predictor's result toward the old snapshot
C3_Witness ==
  /\ frameCounter >= 2
  /\ ~lastFrameFresh
  /\ ~freshSnapshot
  /\ reconTier = "gentle"
  /\ localPositionRef # predictedPosition

-----------------------------------------------------------------------------
(* Jump and rest claims (SpecJump) *)

-----------------------------------------------------------------------------
(* Direction claim (SpecDir) *)

\* the input has exactly the movement flags f, b, l, r and no action that hides the direction
Moves(f, b, l, r) ==
  /\ dirDone
  /\ dirGrounded
  /\ ~dirInput.attack /\ ~dirInput.castSpell /\ ~dirInput.jump
  /\ dirInput.forward = f /\ dirInput.backward = b
  /\ dirInput.left = l /\ dirInput.right = r

\* both functions selected direction d
Selected(d) ==
  LET name == (IF dirInput.sprint THEN "run" ELSE "walk") \o "-" \o d
  IN dirApp = name /\ dirLocal = name

\* C2 as stated: the direction selected by determineAnimation and
\* determineLocalAnimation is the tie-break table: forward-only forward,
\* backward-only back, left-only left, right-only right, forward+left left,
\* forward+right right, backward+left left, backward+right right.
C2_TieBreakTable ==
  /\ (Moves(TRUE, FALSE, FALSE, FALSE) => Selected("forward"))
  /\ (Moves(FALSE, TRUE, FALSE, FALSE) => Selected("back"))
  /\ (Moves(FALSE, FALSE, TRUE, FALSE) => Selected("left"))
  /\ (Moves(FALSE, FALSE, FALSE, TRUE) => Selected("right"))
  /\ (Moves(TRUE, FALSE, TRUE, FALSE) => Selected("left"))
  /\ (Moves(TRUE, FALSE, FALSE, TRUE) => Selected("right"))
  /\ (Moves(FALSE, TRUE, TRUE, FALSE) => Selected("left"))
  /\ (Moves(FALSE, TRUE, FALSE, TRUE) => Selected("right"))

-----------------------------------------------------------------------------
(* Remote buffer and interpolation claims (SpecBuffer, SpecRemote) *)

\* C6: the buffer holds at most 10 entries, and they are the most recent
\* min(n, 10) of the n snapshots accepted so far, in arrival order.
C6_BufferKeepsNewestTen ==
  LET n == Len(accepted)
      k == Len(remotePositionBuffer)
  IN /\ k <= 10
     /\ k = (IF n < 10 THEN n ELSE 10)
     /\ \A j \in 1..k : remotePositionBuffer[j] = accepted[n - k + j]

\* C6 witness: 15 accepted arrivals, the buffer holds arrivals 6..15
C6_Witness ==
  /\ Len(accepted) = 15
  /\ Len(remotePositionBuffer) = 10
  /\ remotePositionBuffer[1] = accepted[6]
  /\ remotePositionBuffer[10] = accepted[15]

\* renderTime of the last remote frame
RenderTime == remoteNow - 100

\* p0 + (p1 - p0) * (renderTime - t0) / (t1 - t0)
Interpolated(s0, s1) ==
  Vec(s0.pos.x + RoundDiv((s1.pos.x - s0.pos.x) * (RenderTime - s0.timestamp),
                          s1.timestamp - s0.timestamp),
      s0.pos.y + RoundDiv((s1.pos.y - s0.pos.y) * (RenderTime - s0.timestamp),
                          s1.timestamp - s0.timestamp),
      s0.pos.z + RoundDiv((s1.pos.z - s0.pos.z) * (RenderTime - s0.timestamp),
                          s1.timestamp - s0.timestamp))

\* C10: after a frame whose buffer holds consecutive entries (p0,t0), (p1,t1) with
\* t0 <= renderTime < t1, renderTime = now - 100 ms, the interpolation target is
\* p0 + (p1 - p0) * (renderTime - t0) / (t1 - t0).
C10_InterpolationTarget ==
  remoteFrames > 0 =>
    \A i \in 1..(Len(remotePositionBuffer) - 1) :
      (/\ remotePositionBuffer[i].timestamp <= RenderTime
       /\ RenderTime < remotePositionBuffer[i + 1].timestamp)
      => remoteTargetPosition =
           Interpolated(remotePositionBuffer[i], remotePositionBuffer[i + 1])

\* C10 witness: snapshots (0,0,0) at 1000 ms and (10,0,0) at 1100 ms, renderTime
\* 1050 ms, target (5,0,0)
C10_Witness ==
  /\ remoteNow = 1150
  /\ Len(remotePositionBuffer) = 2
  /\ remotePositionBuffer[1] = [pos |-> Origin, timestamp |-> 1000]
  /\ remotePositionBuffer[2] = [pos |-> Vec(10000, 0, 0), timestamp |-> 1100]
  /\ remoteTargetPosition = Vec(5000, 0, 0)

-----------------------------------------------------------------------------
(* RTT claims (SpecRtt, SpecLoss) *)

\* C4 as stated: the first acknowledgment of a pending sequence s, sent at t0 (any
\* t0, 0 included) and acknowledged at t1, appends exactly the sample t1 - t0 and
\* removes s from the pending table; an acknowledgment of a sequence that is not
\* pending appends no sample.
C4_OneSamplePerSequence ==
  [][lastAck' # lastAck =>
       IF lastAck'.pending
         THEN /\ rttSamples' = Append(rttSamples, lastAck'.time - lastAck'.sentTime)
              /\ lastAck'.seq \notin DOMAIN inputTimestampsRef'
         ELSE /\ rttSamples' = rttSamples
              /\ inputTimestampsRef' = inputTimestampsRef]_vars

\* C5 as stated: after every send, no pending entry has a sequence more than 100
\* below the sequence just sent.
C5_PendingTableBounded ==
  \A s \in DOMAIN inputTimestampsRef : s >= lastSentSequence - 100

\* C11 as stated: once some acknowledgment has been processed, an acknowledgment
\* whose sequence is not above the highest sequence processed so far (a duplicate,
\* or an out-of-order acknowledgment of a lower sequence) appends no RTT sample and
\* leaves the pending table unchanged.
C11_StaleAckIgnored ==
  [][(lastAck' # lastAck /\ highestAck > 0 /\ lastAck'.seq <= highestAck) =>
       (rttSamples' = rttSamples /\ inputTimestampsRef' = inputTimestampsRef)]_vars

\* C12 as stated: after every acknowledgment that carries a sequence s (s # 0),
\* whether or not a pending entry matched it, no pending entry is more than 100
\* sequences older than s.
C12_AckAgesOutOldEntries ==
  [][(lastAck' # lastAck /\ lastAck'.seq # 0) =>
       \A s \in DOMAIN inputTimestampsRef' : s >= lastAck'.seq - PENDING_LIMIT]_vars

-----------------------------------------------------------------------------
(* Planar move claim (SpecMove) *)

\* the planar displacement of one tick along the strafe component alone
StrafeMove ==
  LET r == RightVec(moveYaw)
      sr == IF dirInput.right THEN 1 ELSE -1
      speed == IF dirInput.sprint THEN SPRINT_SPEED ELSE PLAYER_SPEED
  IN [x |-> RoundDiv(sr * r.x * speed, 1000 * TICKS_PER_SECOND),
      z |-> RoundDiv(sr * r.z * speed, 1000 * TICKS_PER_SECOND)]

\* C13 as stated: for a diagonal flag combination (one of forward / backward with
\* one of left / right) the planar move of the predictor is the strafe component
\* alone: left for forward+left and backward+left, right for forward+right and
\* backward+right.
C13_DiagonalMovesAlongStrafe ==
  (moveDone /\ dirInput.forward # dirInput.backward /\ dirInput.left # dirInput.right) =>
    (moveVector.x = StrafeMove.x /\ moveVector.z = StrafeMove.z)

-----------------------------------------------------------------------------
(* Reconciliation scope and order claims (SpecTier, SpecLocal) *)

\* what the predictor step of a frame computes from the state before the frame
Predicted ==
  calculateClientMovement(localPositionRef, localRotationRef, currentInput,
                          verticalVelocity, prevJumpRef)

\* C14: the reconciliation step of a frame, in every tier, changes only the predicted
\* position: after the frame the vertical velocity and the previous-jump flag are the
\* ones the predictor step left, the local yaw is the one before the frame, and so
\* the rotation of the snapshot is not copied into the predicted state.
C14_ReconcileChangesOnlyPosition ==
  [][frameCounter' # frameCounter =>
       /\ reconTier' \in {"snap", "aggressive", "gentle"}
       /\ verticalVelocity' = Predicted.vv
       /\ prevJumpRef' = Predicted.prevJump
       /\ localRotationRef' = localRotationRef]_vars

\* C14 witness: a frame snapped the position of an entity in the air to a snapshot
\* with another rotation; the velocity, the flag and the yaw are not the snapshot's
C14_Witness ==
  /\ FrameSettled
  /\ reconTier = "snap"
  /\ localPositionRef = playerData.position
  /\ verticalVelocity > 0
  /\ prevJumpRef
  /\ localRotationRef # playerData.rotation

\* C15: in every frame of the local entity the predictor step runs first, on the
\* position the previous frame left, and the reconciliation step second, on the
\* predictor's result and the latest snapshot received before the frame.
C15_PredictThenReconcile ==
  [][frameCounter' # frameCounter =>
       /\ predictedPosition' = Predicted.pos
       /\ playerData' = playerData
       /\ distError' = distanceTo(Predicted.pos, playerData.position)
       /\ localPositionRef' =
            (IF distError' > SNAP_THRESHOLD THEN playerData.position
             ELSE lerp(Predicted.pos, playerData.position, lerpFactor'))]_vars

\* C15 witness: a frame that moved the entity and then blended the result toward a
\* snapshot that had arrived just before the frame
C15_Witness ==
  /\ FrameSettled
  /\ lastFrameFresh
  /\ currentInput.forward
  /\ reconTier = "aggressive"
  /\ predictedPosition # playerData.position
  /\ localPositionRef # predictedPosition

-----------------------------------------------------------------------------
(* Connection claims (SpecSession) *)

\* C16: while there is no connection (after a disconnect, until onConnect runs
\* again) the entity table is empty, the local player record is null and no Player
\* component, hence no snapshot buffer and no predicted state, is mounted.
\* The table stays empty until a table callback of a connection delivers a row.
C16_NoEntitiesWhileDisconnected ==
  /\ [](~conn => /\ DOMAIN players = {}
                 /\ localPlayer = NoPlayer
                 /\ MountedPlayers = {})
  /\ [][(DOMAIN players = {} /\ DOMAIN players' # {}) =>
         (conn /\ lastEvent'.name \in {"onInsert", "onUpdate", "onSubscriptionApplied"})]_vars

\* C16 witness: a disconnect that found two entities in the table left none
C16_Witness ==
  /\ ~conn
  /\ lastEvent.name = "onDisconnect"
  /\ lastEvent.size = 2
  /\ DOMAIN players = {}
  /\ localPlayer = NoPlayer

\* C17: while there is no connection no step increments the sequence counter or
\* hands a command to the reducer, and once the effects of the disconnect have
\* run no interval is set.
C17_SamplerStoppedWhileDisconnected ==
  /\ [][~conn => (sequence' = sequence /\ sentCommands' = sentCommands)]_vars
  /\ []((~conn /\ ~ENABLED RunEffects) => ~interval.running)

\* C17 witness: disconnected after two commands, the interval cleared
C17_Witness ==
  /\ ~conn
  /\ lastEvent.name = "onDisconnect"
  /\ ~interval.running
  /\ sequence >= 2
  /\ Len(sentCommands) = sequence

\* C18 as stated: while there is no connection (after a disconnect) the pending
\* table holds no entry.
C18_PendingTableEmptyAfterDisconnect ==
  ~conn => DOMAIN inputTimestampsRef = {}

\* C19: the commands handed to the reducer carry the sequences 1, 2, 3, ... in
\* this order over the whole execution, reconnections included: every step that
\* changes the counter adds exactly one to it and sends exactly one command
\* carrying the new value, so the sent sequences are strictly increasing.
C19_SequencesNeverReused ==
  /\ Len(sentCommands) = sequence
  /\ \A i \in 1..Len(sentCommands) : sentCommands[i] = i
  /\ \A i, j \in 1..Len(sentCommands) : i < j => sentCommands[i] < sentCommands[j]

\* C19 witness: a second connection continued the sequences of the first
C19_Witness ==
  /\ conn
  /\ connects = 2
  /\ lastEvent.name = "onConnect"
  /\ lastEvent.seq >= 1
  /\ sequence > lastEvent.seq
  /\ sentCommands[sequence] = sequence

\* C20: an update of the local entity whose lastInputSeq has no pending entry
\* appends no RTT sample and leaves the pending table unchanged, and the row it
\* carries is stored in the entity table (and as the local player record).
C20_UnmatchedAckStoresSnapshot ==
  [][(/\ lastEvent' # lastEvent
      /\ lastEvent'.name = "onUpdate"
      /\ identityRef # NoIdentity
      /\ lastEvent'.row.identity = identityRef
      /\ lastEvent'.row.lastInputSeq \notin DOMAIN inputTimestampsRef)
     => /\ rttSamples' = rttSamples
        /\ inputTimestampsRef' = inputTimestampsRef
        /\ identityRef \in DOMAIN players'
        /\ players'[identityRef] = lastEvent'.row
        /\ localPlayer' = lastEvent'.row]_vars

\* C20 witness: with entries pending, a row carrying a sequence that is not
\* pending, and a new position, was stored
C20_Witness ==
  /\ lastEvent.name = "onUpdate"
  /\ lastEvent.row.identity = identityRef
  /\ lastEvent.row.lastInputSeq >= 1
  /\ lastEvent.row.position = Vec(1000, 0, 0)
  /\ lastAck.seq = lastEvent.row.lastInputSeq
  /\ ~lastAck.pending
  /\ DOMAIN inputTimestampsRef # {}
  /\ LocalId \in DOMAIN players
  /\ players[LocalId] = lastEvent.row

-----------------------------------------------------------------------------
(* Remote buffer claims, continued (SpecRemote) *)

\* TRUE iff p is a + (b - a) * k / den for some 0 <= k <= den
OnSegment(p, a, b, den) ==
  \E k \in 0..den : p = Vec(a.x + RoundDiv((b.x - a.x) * k, den),
                            a.y + RoundDiv((b.y - a.y) * k, den),
                            a.z + RoundDiv((b.z - a.z) * k, den))

-----------------------------------------------------------------------------
(* Jump and vertical velocity claims, continued (SpecJump) *)

\* C25: a frame that sees the jump flag held, after a frame that saw it released,
\* while the entity is grounded (y <= 0.01) at its start, applies the jump impulse.
C25_RisingEdgeJumps ==
  (frameCounter >= 2 /\ jumpRun.ticks = 1 /\ jumpRun.grounded) => jumpImpulse

\* C28: after any frame, a predicted entity on the ground (y <= 0) has vertical
\* velocity 0.
C28_GroundedHasNoVerticalVelocity ==
  (frameCounter > 0 /\ localPositionRef.y <= 0) => verticalVelocity = 0

-----------------------------------------------------------------------------
(* Entity pipeline claims (SpecScene, SpecLook) *)

\* the pipeline ownership selects for the entity id
OwnPipeline(id) == IF id = identity THEN "local" ELSE "remote"

\* C21 as stated: a frame processes every entity of the table by exactly one
\* pipeline, the one its ownership selects.
C21_EveryEntityEveryFrame ==
  [][sceneFrames' # sceneFrames =>
       \A id \in DOMAIN players : id \in DOMAIN scene'
                                  /\ scene'[id].ran = {OwnPipeline(id)}]_vars

\* C21: a frame processes every entity whose model is loaded by exactly one pipeline,
\* the predictor and reconciler for the entity of the local identity and the remote
\* interpolator for any other, and an entity whose model is not loaded by none; the
\* local entity never gets a buffer and a remote entity no predicted motion; a
\* component, and with it a buffer, exists exactly for the entities of the table; an
\* entity that appears starts with an empty buffer.
C21_OnePipelinePerEntity ==
  /\ [](/\ DOMAIN scene = MountedPlayers
        /\ \A id \in DOMAIN scene :
             /\ scene[id].isLocalPlayer <=> id = identity
             /\ scene[id].ran \subseteq {OwnPipeline(id)}
             /\ id = identity => scene[id].remotePositionBuffer = <<>>
             /\ id # identity => /\ scene[id].localPositionRef = scene[id].mountData.position
                                 /\ scene[id].verticalVelocity = 0)
  /\ [][(sceneFrames' # sceneFrames =>
            \A id \in DOMAIN scene :
              scene'[id].ran = IF scene[id].modelLoaded THEN {OwnPipeline(id)} ELSE {})
        /\ (\A id \in DOMAIN scene' \ DOMAIN scene :
              /\ scene'[id].remotePositionBuffer = <<>>
              /\ scene'[id].ran = {})]_vars

\* C21 witness: the buffer of the remote entity id2 was discarded with its component,
\* id2 is back with an empty buffer, and the last frame ran the local pipeline for id1
C21_Witness ==
  /\ "id2" \in DOMAIN dropped
  /\ dropped["id2"] >= 1
  /\ "id2" \in DOMAIN scene
  /\ scene["id2"].remotePositionBuffer = <<>>
  /\ LocalId \in DOMAIN scene
  /\ scene[LocalId].ran = {"local"}

\* predicted position, vertical velocity and yaw of a component
PredictedOf(c) == <<c.localPositionRef, c.verticalVelocity, c.localRotationRef>>

-----------------------------------------------------------------------------
(* Command content claims (SpecLook) *)

\* C26: the yaw of every command sent while the local component runs its predictor
\* (model loaded) is the yaw the predictor uses at that time.
C26_SentYawIsPredictorYaw ==
  [][(/\ sentCommands' # sentCommands
      /\ identity \in DOMAIN scene
      /\ scene[identity].modelLoaded)
     => lastCommand'.yaw = scene[identity].localRotationRef]_vars

\* C27: the forward vector of every command sent is the forward direction of the
\* yaw the command carries.
C27_SentForwardFollowsYaw ==
  [][sentCommands' # sentCommands
     => lastCommand'.forwardVector = ForwardVec(lastCommand'.yaw)]_vars

-----------------------------------------------------------------------------
(* Sampler timer claim (SpecTimer) *)

\* C24: while connected a sampler tick eventually occurs, however often snapshots of
\* the local entity arrive.
C24_TickEventuallyOccurs == <>(sequence > 0)

-----------------------------------------------------------------------------
\* Two executions of the connected client side by side.  Both receive the same key
\* events, the same frames, the same sampler ticks and snapshots with the same
\* positions; the snapshots of the local entity acknowledge different sequences in
\* the two executions: any sequence sent so far in A, always the latest in B.

MaxTwinSequence == 2     \* sampler ticks of an execution
MaxTwinFrames == 1       \* rendered frames of an execution
TwinKeys == {"forward"}

\* the sampler callback and sendInput of a connected execution (App.tsx:506-509,
\* 312-359): the command carries the sequence, the flags and the yaw
TickOn_WaitsForAck(r, flags, yaw) ==
  LET seq == r.sequence + 1 IN
  IF seq # r.lastSentSequence /\ DOMAIN r.inputTimestampsRef = {}
    THEN [r EXCEPT !.sequence = seq,
                   !.rttSamples = StatsWindow(seq, r.rttSamples),
                   !.inputTimestampsRef = MapSet(r.inputTimestampsRef, seq, r.now),
                   !.sent = Append(r.sent, [sequence |-> seq, flags |-> flags, yaw |-> yaw]),
                   !.lastSentSequence = seq]
    ELSE [r EXCEPT !.sequence = seq]

TickOn(r, flags, yaw) ==
  LET seq == r.sequence + 1 IN
  IF seq # r.lastSentSequence
    THEN [r EXCEPT !.sequence = seq,
                   !.rttSamples = StatsWindow(seq, r.rttSamples),
                   !.inputTimestampsRef = MapSet(r.inputTimestampsRef, seq, r.now),
                   !.sent = Append(r.sent, [sequence |-> seq, flags |-> flags, yaw |-> yaw]),
                   !.lastSentSequence = seq]
    ELSE [r EXCEPT !.sequence = seq]

\* the onInsert / onUpdate handler of an execution and the commit that follows it
\* (App.tsx:109-161, Player.tsx:1417-1428)
UpdateOn(r, row) ==
  LET rows == MapSet(r.players, row.identity, row)
      own  == row.identity = LocalId
  IN [r EXCEPT !.players = rows,
               !.rttSamples = IF own
                                THEN AckSamples(r.inputTimestampsRef, r.rttSamples,
                                                row.lastInputSeq, r.now)
                                ELSE r.rttSamples,
               !.inputTimestampsRef = IF own
                                        THEN AckTable(r.inputTimestampsRef, row.lastInputSeq)
                                        ELSE r.inputTimestampsRef,
               !.scene = Render(r.scene, rows, TRUE, LocalId)]

\* one rendered frame of an execution (Player.tsx:958-1190)
LOG_PERIOD == 1000       \* now - lastLogTime.current > 1000

\* the diagnostic refs of the local component after a frame whose useFrame ran at now
\* (Player.tsx:981-996)
Diagnosed(r, now) ==
  IF LocalId \in DOMAIN r.scene /\ r.scene[LocalId].modelLoaded
    THEN IF now - r.lastLogTime > LOG_PERIOD
           THEN [r EXCEPT !.frameCounter = 0, !.lastLogTime = now]
           ELSE [r EXCEPT !.frameCounter = r.frameCounter + 1]
    ELSE r

\* variant of FrameAt: the local component steps once per 1/60 s of the render delta
FrameAt_VariableStep(r, dt) ==
  LET once == [id \in DOMAIN r.scene |->
                 PlayerFrame(r.scene[id], id, r.players[id].position, r.now + dt)]
      twice == [id \in DOMAIN r.scene |->
                  IF once[id].isLocalPlayer
                    THEN PlayerFrame(once[id], id, r.players[id].position, r.now + dt)
                    ELSE once[id]]
  IN [Diagnosed(r, r.now + dt) EXCEPT !.now = r.now + dt,
                                      !.frames = r.frames + 1,
                                      !.scene = IF dt >= 2 * 16 THEN twice ELSE once]

\* one rendered frame of an execution, dt ms after the previous one: every mounted
\* component runs its useFrame callback (Player.tsx:951-1190)
FrameAt(r, dt) ==
  [Diagnosed(r, r.now + dt) EXCEPT
     !.now = r.now + dt,
     !.frames = r.frames + 1,
     !.scene = [id \in DOMAIN r.scene |->
                  PlayerFrame(r.scene[id], id, r.players[id].position, r.now + dt)]]

FrameOn(r) == FrameAt(r, SceneDelta)

LoadOn(r, id) == [r EXCEPT !.scene = [r.scene EXCEPT ![id] = Loaded(r.scene[id])]]

\* the connected execution: the local row inserted, its component mounted
FirstRun ==
  UpdateOn([NoRun EXCEPT !.now = SessionClock, !.lastLogTime = SessionClock],
           Row(LocalId, Origin, 0))

Running == LocalId \in DOMAIN runs.A.players

UNCHANGED_Program == UNCHANGED <<localVars, dirVars, remoteVars, rttVars, sessionVars,
                                 moveVars, sceneVars, sideVars>>

\* both executions connect and receive the insert of their own row
TwinStart ==
  /\ ~Running
  /\ runs' = [A |-> FirstRun, B |-> FirstRun]
  /\ UNCHANGED_Program

TwinTick ==
  /\ Running
  /\ runs.A.sequence < MaxTwinSequence
  /\ runs' = [A |-> TickOn(runs.A, currentInput, playerRotationRef),
              B |-> TickOn(runs.B, currentInput, playerRotationRef)]
  /\ UNCHANGED_Program

\* the same snapshot of the local entity, acknowledging any sequence a sent so far
\* in one execution and the latest sequence in the other
TwinSnapshot(p, a) ==
  /\ Running
  /\ a \in 0..runs.A.sequence
  /\ runs' = [A |-> UpdateOn(runs.A, Row(LocalId, p, a)),
              B |-> UpdateOn(runs.B, Row(LocalId, p, runs.B.sequence))]
  /\ UNCHANGED_Program

TwinRemote(p) ==
  /\ Running
  /\ runs' = [A |-> UpdateOn(runs.A, Row("id2", p, 0)),
              B |-> UpdateOn(runs.B, Row("id2", p, 0))]
  /\ runs' # runs
  /\ UNCHANGED_Program

TwinLoad(id) ==
  /\ id \in DOMAIN runs.A.scene
  /\ ~runs.A.scene[id].modelLoaded
  /\ runs' = [A |-> LoadOn(runs.A, id), B |-> LoadOn(runs.B, id)]
  /\ UNCHANGED_Program

TwinFrame ==
  /\ Running
  /\ runs.A.now < SessionClock + MaxTwinFrames * SceneDelta
  /\ runs' = [A |-> FrameOn(runs.A), B |-> FrameOn(runs.B)]
  /\ UNCHANGED_Program

NextTwin ==
  \/ TwinStart
  \/ \E k \in TwinKeys : KeyDown(k)
  \/ TwinTick
  \/ \E p \in SessionPositions, a \in 0..MaxTwinSequence : TwinSnapshot(p, a)
  \/ TwinRemote(Vec(1000, 0, 0))
  \/ \E id \in Ids : TwinLoad(id)
  \/ TwinFrame
SpecTwin == InitSession /\ [][NextTwin]_vars

\* Two executions that render their frames at different times: the same key events and
\* snapshots, frame deltas chosen independently
MaxStepFrames == 2
StepKeys == {"forward", "jump"}
StepDeltas == {8, 33, 600}

StepFrame(dtA, dtB) ==
  /\ Running
  /\ runs.A.frames < MaxStepFrames
  /\ runs' = [A |-> FrameAt(runs.A, dtA), B |-> FrameAt(runs.B, dtB)]
  /\ UNCHANGED_Program

NextStep ==
  \/ TwinStart
  \/ \E k \in StepKeys : KeyDown(k)
  \/ \E k \in StepKeys : KeyUp(k)
  \/ \E p \in SessionPositions : TwinSnapshot(p, 0)
  \/ TwinLoad(LocalId)
  \/ \E dtA, dtB \in StepDeltas : StepFrame(dtA, dtB)
SpecStep == InitSession /\ [][NextStep]_vars

\* what an execution does to the game: the commands it sent and the state of every
\* entity it renders
Gameplay(r) ==
  [sequence |-> r.sequence, sent |-> r.sent, scene |-> r.scene,
   positions |-> [id \in DOMAIN r.players |-> r.players[id].position]]

\* C23: two executions with the same input events and the same snapshot positions
\* but different acknowledged sequences, hence different pending tables and RTT
\* samples, send the same commands (sequence, flags, yaw) and hold the same predicted
\* and remote entity states
C23_RttIsDiagnosticOnly == Gameplay(runs.A) = Gameplay(runs.B)

\* the two executions differ in the pending table and in the RTT samples after
\* sending commands and running the predictor on a moving local entity
C23_Witness ==
  /\ runs.A.inputTimestampsRef # runs.B.inputTimestampsRef
  /\ runs.A.rttSamples # runs.B.rttSamples
  /\ Len(runs.A.sent) >= 2
  /\ LocalId \in DOMAIN runs.A.scene
  /\ runs.A.scene[LocalId].ran = {"local"}
  /\ runs.A.scene[LocalId].localPositionRef # Origin
  /\ "id2" \in DOMAIN runs.A.scene
  /\ runs.A.scene["id2"].ran = {"remote"}

-----------------------------------------------------------------------------
(* Convergence of the reconciliation (SpecConverge) *)

\* C31: a frame of an idle, grounded (y <= 0.01) local entity whose authoritative
\* snapshot did not change since the frame before never increases the distance
\* between the predicted and the authoritative position, strictly decreases it when
\* it is positive, and brings it to 0 when it was above 1.0.
C31_IdleFrameClosesError ==
  [][(/\ modelLoaded
      /\ frameCounter >= 1
      /\ frameCounter' = frameCounter + 1
      /\ ~freshSnapshot
      /\ ~currentInput.forward /\ ~currentInput.backward
      /\ ~currentInput.left /\ ~currentInput.right /\ ~currentInput.jump
      /\ localPositionRef.y <= GROUND_EPSILON)
     => LET before == DistSq(localPositionRef, playerData.position)
            after  == DistSq(localPositionRef', playerData.position)
        IN /\ after <= before
           /\ (before > 0 => after < before)
           /\ (distanceTo(localPositionRef, playerData.position) > SNAP_THRESHOLD
                 => after = 0)]_vars

-----------------------------------------------------------------------------
(* Fixed step of the local predictor (SpecStep) *)

\* the predicted state of the local entity in an execution
Stepped(r) ==
  LET c == r.scene[LocalId]
  IN [position |-> c.localPositionRef, verticalVelocity |-> c.verticalVelocity,
      prevJump |-> c.prevJumpRef, yaw |-> c.localRotationRef]

\* C32: two executions that start from the same predicted state and apply the same
\* commands frame by frame hold the same predicted position, vertical velocity,
\* previous-jump flag and yaw, whatever the render frame deltas and the wall-clock
\* times of their frames.
C32_FixedStepPredictor ==
  Running => Stepped(runs.A) = Stepped(runs.B)

\* the two executions rendered their frames at different times, their diagnostic
\* counters differ, and the predictor moved the entity and applied a jump
C32_Witness ==
  /\ Running
  /\ runs.A.frames = MaxStepFrames
  /\ runs.A.now # runs.B.now
  /\ runs.A.frameCounter # runs.B.frameCounter
  /\ runs.A.scene[LocalId].ran = {"local"}
  /\ runs.A.scene[LocalId].localPositionRef.y > 0
  /\ runs.A.scene[LocalId].localPositionRef.x # runs.A.players[LocalId].position.x

-----------------------------------------------------------------------------
(* Entity table claims, continued (SpecSession) *)

\* C33: after an insert or an update the entry of the row's identifier is the row
\* just received, after a delete the identifier has no entry, and the handler of one
\* entity's event leaves every other entry as it was: whatever came before, the entry
\* is the most recently received snapshot, and no older one comes back.
C33_TableHoldsLatestSnapshot ==
  /\ [](lastEvent.name \in {"onInsert", "onUpdate"}
          => /\ lastEvent.row.identity \in DOMAIN players
             /\ players[lastEvent.row.identity] = lastEvent.row)
  /\ [](lastEvent.name = "onDelete" => lastEvent.row.identity \notin DOMAIN players)
  /\ [][(lastEvent'.name \in {"onInsert", "onUpdate", "onDelete"} /\ players' # players)
          => \A id \in (DOMAIN players \cup DOMAIN players') \ {lastEvent'.row.identity} :
               /\ id \in DOMAIN players /\ id \in DOMAIN players'
               /\ players'[id] = players[id]]_vars

\* an update replaced the entry of an entity while the table held two entities
C33_Witness ==
  /\ lastEvent.name = "onUpdate"
  /\ lastEvent.size = 2
  /\ lastEvent.row.identity = "id2"
  /\ lastEvent.row.position = Vec(1000, 0, 0)
  /\ players["id2"] = lastEvent.row
  /\ LocalId \in DOMAIN players
  /\ players[LocalId].position = Origin

\* C35: when the entity table has an entry for the local identity, the local player
\* record is that entry; when it has none, the local player record is null.
C35_LocalPlayerMirrorsTable ==
  IF identity # NoIdentity /\ identity \in DOMAIN players
    THEN localPlayer = players[identity]
    ELSE localPlayer = NoPlayer

-----------------------------------------------------------------------------
(* RTT statistics (SpecReport) *)

\* C36: a statistics line is logged only by a command whose sequence is a multiple of
\* 60 sent while the sample set is non-empty, and every such command logs one; the
\* line covers exactly the samples of the set at that moment, its min and max are the
\* least and the greatest of them and its avg lies between them; the set is empty
\* afterwards.  Samples leave the set only this way, all at once, and enter it only
\* one at a time at its end, so no sample is covered by two lines.
C36_ReportClearsWindow ==
  /\ [][reports' # reports
          => /\ sequence' % STATS_PERIOD = 0
             /\ Len(rttSamples) > 0
             /\ rttSamples' = <<>>
             /\ Len(reports') = Len(reports) + 1
             /\ SubSeq(reports', 1, Len(reports)) = reports
             /\ LET r == reports'[Len(reports')]
                IN /\ r.sequence = sequence'
                   /\ r.window = rttSamples
                   /\ \E i \in 1..Len(rttSamples) : rttSamples[i] = r.min
                   /\ \E i \in 1..Len(rttSamples) : rttSamples[i] = r.max
                   /\ \A i \in 1..Len(rttSamples) :
                        r.min <= rttSamples[i] /\ rttSamples[i] <= r.max
                   /\ r.min <= r.avg /\ r.avg <= r.max]_vars
  /\ [][(sequence' # sequence /\ sequence' % STATS_PERIOD = 0
         /\ lastSentSequence' = sequence' /\ Len(rttSamples) > 0)
          => Len(reports') = Len(reports) + 1]_vars
  /\ [][rttSamples' # rttSamples
          => \/ rttSamples' = <<>> /\ Len(reports') = Len(reports) + 1
             \/ /\ Len(rttSamples') = Len(rttSamples) + 1
                /\ SubSeq(rttSamples', 1, Len(rttSamples)) = rttSamples
                /\ reports' = reports]_vars

\* two lines were logged, each over several samples with different values, and a
\* sample collected after the second line waits for the next one
C36_Witness ==
  /\ Len(reports) = 2
  /\ reports[1].sequence = STATS_PERIOD
  /\ reports[2].sequence = 2 * STATS_PERIOD
  /\ Len(reports[1].window) >= 2 /\ reports[1].min < reports[1].max
  /\ Len(reports[2].window) >= 2 /\ reports[2].min < reports[2].max
  /\ Len(rttSamples) = 1

-----------------------------------------------------------------------------
(* Yaw normalisation (SpecLookYaw) *)

\* C34: after a mouse move in follow-camera mode the local yaw lies in [-PI, PI].
C34_YawStaysNormalized ==
  lookMoves > 0 => (-PI_DEG <= lookYaw /\ lookYaw <= PI_DEG)

-----------------------------------------------------------------------------
(* Projectile meshes (SpecProjectile) *)

\* C37: after every frame of the ProjectileManager the identifiers that have a mesh,
\* in projectileMeshes and in the scene, are the keys of the projectiles map.
C37_MeshesMatchProjectiles ==
  [][projFrames' = projFrames + 1
       => /\ DOMAIN projectileMeshes' = DOMAIN projectiles'
          /\ sceneChildren' = DOMAIN projectiles']_vars

\* frames created a mesh for each of two projectiles, removed the mesh of the one
\* that was deleted and keep the mesh of the other, still moving towards its row
C37_Witness ==
  /\ projFrames >= 2
  /\ removedMeshes = {"p1"}
  /\ DOMAIN projectiles = {"p2"}
  /\ DOMAIN projectileMeshes = {"p2"}
  /\ sceneChildren = {"p2"}
  /\ projectileMeshes["p2"] # projectiles["p2"].position

-----------------------------------------------------------------------------
(* Animation loading (SpecLoader) *)

\* every load attempt has finished
AllAttemptsDone ==
  animAttempts # <<>> /\ \A n \in AnimationNames : animAttempts[n] = "done"

\* C38: the completion step that publishes the loaded animations runs at most once,
\* only when every load attempt has finished, and it has run once when they all have.
C38_CompletionRunsOnce ==
  /\ completions <= 1
  /\ (completions = 1 => pendingAtCompletion = 0)
  /\ (AllAttemptsDone => completions = 1)

====
